---- MODULE Spec2Model ----
(***************************************************************************)
(* deeplit-analyzer backend: document upload / background parsing /        *)
(* reprocess / delete (backend/app/api/documents.py), the JSON-file        *)
(* document and conversation stores, the persisted-conversation ask flow   *)
(* (backend/app/api/qa.py) and QAService.answer_question.                  *)
(*                                                                         *)
(* Text is modelled as a sequence of one-character strings where the code  *)
(* works on characters (file names, questions, titles) and as a sequence   *)
(* of lines where it only concatenates (error messages, answers, the       *)
(* markdown export).                                                       *)
(*                                                                         *)
(* The backend is one asyncio event loop: a coroutine runs uninterrupted   *)
(* until it awaits real I/O.  The storage coroutines and the parser do     *)
(* blocking file I/O only, so a handler is one action unless it awaits the *)
(* upload body (upload, once per file), the HTTP client (upload from a     *)
(* URL: the download, then the close of the response and of the session    *)
(* once the file is written) or the LLM (ask).                             *)
(***************************************************************************)
EXTENDS Integers, Sequences, FiniteSets, TLC

VARIABLES
    docs,         \* processed_dir: document id -> persisted Document record
    files,        \* upload_dir: ids whose raw upload file is stored
    tasks,        \* document id -> background tasks scheduled, not yet started
    nextDoc,      \* the next fresh document id (uuid4)
    up,           \* upload requests in flight, one slot per client
    bg,           \* the background task running on the event loop
    convs,        \* conversations_dir: conversation id -> persisted Conversation
    nextConv,     \* the next fresh conversation id (uuid4)
    asks,         \* ask requests in flight, one slot per client
    history,      \* ConversationManager.conversations: document id -> deque
    last_access,  \* ConversationManager.last_access: document id -> time
    now,          \* time.time(), in hours
    asked,        \* number of ask requests accepted so far
    answered,     \* conversation id -> the questions of the asks answered 200
                  \* with that conversation_id, in the order of the responses
    call,         \* the last direct call of QAService.answer_question
    session,      \* st.session_state of one browser session of the frontend
    resp          \* the outcome of the step just taken (NoResp inside a handler)

docVars == <<docs, files, tasks, nextDoc, up, bg>>
convVars == <<convs, nextConv, asks, asked, answered>>
legacyVars == <<history, last_access, now>>
qaVars == <<call, session>>

vars == <<docVars, convVars, legacyVars, qaVars, resp>>

----------------------------------------------------------------------------
(* Bounds of the model *)

MaxDocs == 3
MaxUploads == 2
MaxBatch == 2
MaxTasks == 2
MaxConvs == 2
MaxAsks == 2
MaxDeletes == 1
MaxCandidates == 3
MaxChunks == 6
MaxAdds == 12
TickHours == 13
MaxTime == 26
MaxOtherTurns == 1
MaxLines == 4

(* Program constants *)

max_batch_size == 100
TitleLen == 50
max_history_per_doc == 10
max_age_hours == 24
max_chunks == 5
max_concurrent == 5

DocIds == 1..MaxDocs
ConvIds == 1..MaxConvs
\* The slots of the requests in flight: two concurrent clients
Clients == {1, 2}

----------------------------------------------------------------------------
(* Characters and strings *)

\* A character is a one-character string when it is printable ASCII or one
\* of "\t", "\n", "\r", "\f", and the name of its code point ("U+00E9")
\* otherwise.  The tables are those of Unicode 14.0.0 (Python 3.11).

UpperAlpha == <<"A","B","C","D","E","F","G","H","I","J","K","L","M",
                "N","O","P","Q","R","S","T","U","V","W","X","Y","Z">>
LowerAlpha == <<"a","b","c","d","e","f","g","h","i","j","k","l","m",
                "n","o","p","q","r","s","t","u","v","w","x","y","z">>

UpperSet == { UpperAlpha[i] : i \in 1..Len(UpperAlpha) }

ToLower == [c \in UpperSet |->
              LowerAlpha[CHOOSE i \in 1..Len(UpperAlpha) : UpperAlpha[i] = c]]

\* The lower case of an ASCII letter; any other character is kept
AsciiLowerChar(c) == IF c \in UpperSet THEN ToLower[c] ELSE c

AsciiLower(s) == [i \in 1..Len(s) |-> AsciiLowerChar(s[i])]

\* str.isspace(): the characters str.strip() drops
Whitespace ==
    { "\t", "\n", "U+000B", "\f", "\r", "U+001C", "U+001D", "U+001E",
      "U+001F", " ", "U+0085", "U+00A0", "U+1680", "U+2000", "U+2001",
      "U+2002", "U+2003", "U+2004", "U+2005", "U+2006", "U+2007", "U+2008",
      "U+2009", "U+200A", "U+2028", "U+2029", "U+202F", "U+205F", "U+3000" }

\* The whitespace float() drops around a number: not the four separators
FloatSpace == Whitespace \ {"U+001C", "U+001D", "U+001E", "U+001F"}

\* The decimal digits (category Nd), one row per script, in the order
\* 0 to 9: \d of re matches them, float() and int() read them
DecimalDigits ==
    << <<"0", "1", "2", "3", "4", "5", "6", "7", "8", "9">>,
       <<"U+0660", "U+0661", "U+0662", "U+0663", "U+0664", "U+0665", "U+0666", "U+0667", "U+0668", "U+0669">>,
       <<"U+06F0", "U+06F1", "U+06F2", "U+06F3", "U+06F4", "U+06F5", "U+06F6", "U+06F7", "U+06F8", "U+06F9">>,
       <<"U+07C0", "U+07C1", "U+07C2", "U+07C3", "U+07C4", "U+07C5", "U+07C6", "U+07C7", "U+07C8", "U+07C9">>,
       <<"U+0966", "U+0967", "U+0968", "U+0969", "U+096A", "U+096B", "U+096C", "U+096D", "U+096E", "U+096F">>,
       <<"U+09E6", "U+09E7", "U+09E8", "U+09E9", "U+09EA", "U+09EB", "U+09EC", "U+09ED", "U+09EE", "U+09EF">>,
       <<"U+0A66", "U+0A67", "U+0A68", "U+0A69", "U+0A6A", "U+0A6B", "U+0A6C", "U+0A6D", "U+0A6E", "U+0A6F">>,
       <<"U+0AE6", "U+0AE7", "U+0AE8", "U+0AE9", "U+0AEA", "U+0AEB", "U+0AEC", "U+0AED", "U+0AEE", "U+0AEF">>,
       <<"U+0B66", "U+0B67", "U+0B68", "U+0B69", "U+0B6A", "U+0B6B", "U+0B6C", "U+0B6D", "U+0B6E", "U+0B6F">>,
       <<"U+0BE6", "U+0BE7", "U+0BE8", "U+0BE9", "U+0BEA", "U+0BEB", "U+0BEC", "U+0BED", "U+0BEE", "U+0BEF">>,
       <<"U+0C66", "U+0C67", "U+0C68", "U+0C69", "U+0C6A", "U+0C6B", "U+0C6C", "U+0C6D", "U+0C6E", "U+0C6F">>,
       <<"U+0CE6", "U+0CE7", "U+0CE8", "U+0CE9", "U+0CEA", "U+0CEB", "U+0CEC", "U+0CED", "U+0CEE", "U+0CEF">>,
       <<"U+0D66", "U+0D67", "U+0D68", "U+0D69", "U+0D6A", "U+0D6B", "U+0D6C", "U+0D6D", "U+0D6E", "U+0D6F">>,
       <<"U+0DE6", "U+0DE7", "U+0DE8", "U+0DE9", "U+0DEA", "U+0DEB", "U+0DEC", "U+0DED", "U+0DEE", "U+0DEF">>,
       <<"U+0E50", "U+0E51", "U+0E52", "U+0E53", "U+0E54", "U+0E55", "U+0E56", "U+0E57", "U+0E58", "U+0E59">>,
       <<"U+0ED0", "U+0ED1", "U+0ED2", "U+0ED3", "U+0ED4", "U+0ED5", "U+0ED6", "U+0ED7", "U+0ED8", "U+0ED9">>,
       <<"U+0F20", "U+0F21", "U+0F22", "U+0F23", "U+0F24", "U+0F25", "U+0F26", "U+0F27", "U+0F28", "U+0F29">>,
       <<"U+1040", "U+1041", "U+1042", "U+1043", "U+1044", "U+1045", "U+1046", "U+1047", "U+1048", "U+1049">>,
       <<"U+1090", "U+1091", "U+1092", "U+1093", "U+1094", "U+1095", "U+1096", "U+1097", "U+1098", "U+1099">>,
       <<"U+17E0", "U+17E1", "U+17E2", "U+17E3", "U+17E4", "U+17E5", "U+17E6", "U+17E7", "U+17E8", "U+17E9">>,
       <<"U+1810", "U+1811", "U+1812", "U+1813", "U+1814", "U+1815", "U+1816", "U+1817", "U+1818", "U+1819">>,
       <<"U+1946", "U+1947", "U+1948", "U+1949", "U+194A", "U+194B", "U+194C", "U+194D", "U+194E", "U+194F">>,
       <<"U+19D0", "U+19D1", "U+19D2", "U+19D3", "U+19D4", "U+19D5", "U+19D6", "U+19D7", "U+19D8", "U+19D9">>,
       <<"U+1A80", "U+1A81", "U+1A82", "U+1A83", "U+1A84", "U+1A85", "U+1A86", "U+1A87", "U+1A88", "U+1A89">>,
       <<"U+1A90", "U+1A91", "U+1A92", "U+1A93", "U+1A94", "U+1A95", "U+1A96", "U+1A97", "U+1A98", "U+1A99">>,
       <<"U+1B50", "U+1B51", "U+1B52", "U+1B53", "U+1B54", "U+1B55", "U+1B56", "U+1B57", "U+1B58", "U+1B59">>,
       <<"U+1BB0", "U+1BB1", "U+1BB2", "U+1BB3", "U+1BB4", "U+1BB5", "U+1BB6", "U+1BB7", "U+1BB8", "U+1BB9">>,
       <<"U+1C40", "U+1C41", "U+1C42", "U+1C43", "U+1C44", "U+1C45", "U+1C46", "U+1C47", "U+1C48", "U+1C49">>,
       <<"U+1C50", "U+1C51", "U+1C52", "U+1C53", "U+1C54", "U+1C55", "U+1C56", "U+1C57", "U+1C58", "U+1C59">>,
       <<"U+A620", "U+A621", "U+A622", "U+A623", "U+A624", "U+A625", "U+A626", "U+A627", "U+A628", "U+A629">>,
       <<"U+A8D0", "U+A8D1", "U+A8D2", "U+A8D3", "U+A8D4", "U+A8D5", "U+A8D6", "U+A8D7", "U+A8D8", "U+A8D9">>,
       <<"U+A900", "U+A901", "U+A902", "U+A903", "U+A904", "U+A905", "U+A906", "U+A907", "U+A908", "U+A909">>,
       <<"U+A9D0", "U+A9D1", "U+A9D2", "U+A9D3", "U+A9D4", "U+A9D5", "U+A9D6", "U+A9D7", "U+A9D8", "U+A9D9">>,
       <<"U+A9F0", "U+A9F1", "U+A9F2", "U+A9F3", "U+A9F4", "U+A9F5", "U+A9F6", "U+A9F7", "U+A9F8", "U+A9F9">>,
       <<"U+AA50", "U+AA51", "U+AA52", "U+AA53", "U+AA54", "U+AA55", "U+AA56", "U+AA57", "U+AA58", "U+AA59">>,
       <<"U+ABF0", "U+ABF1", "U+ABF2", "U+ABF3", "U+ABF4", "U+ABF5", "U+ABF6", "U+ABF7", "U+ABF8", "U+ABF9">>,
       <<"U+FF10", "U+FF11", "U+FF12", "U+FF13", "U+FF14", "U+FF15", "U+FF16", "U+FF17", "U+FF18", "U+FF19">>,
       <<"U+104A0", "U+104A1", "U+104A2", "U+104A3", "U+104A4", "U+104A5", "U+104A6", "U+104A7", "U+104A8", "U+104A9">>,
       <<"U+10D30", "U+10D31", "U+10D32", "U+10D33", "U+10D34", "U+10D35", "U+10D36", "U+10D37", "U+10D38", "U+10D39">>,
       <<"U+11066", "U+11067", "U+11068", "U+11069", "U+1106A", "U+1106B", "U+1106C", "U+1106D", "U+1106E", "U+1106F">>,
       <<"U+110F0", "U+110F1", "U+110F2", "U+110F3", "U+110F4", "U+110F5", "U+110F6", "U+110F7", "U+110F8", "U+110F9">>,
       <<"U+11136", "U+11137", "U+11138", "U+11139", "U+1113A", "U+1113B", "U+1113C", "U+1113D", "U+1113E", "U+1113F">>,
       <<"U+111D0", "U+111D1", "U+111D2", "U+111D3", "U+111D4", "U+111D5", "U+111D6", "U+111D7", "U+111D8", "U+111D9">>,
       <<"U+112F0", "U+112F1", "U+112F2", "U+112F3", "U+112F4", "U+112F5", "U+112F6", "U+112F7", "U+112F8", "U+112F9">>,
       <<"U+11450", "U+11451", "U+11452", "U+11453", "U+11454", "U+11455", "U+11456", "U+11457", "U+11458", "U+11459">>,
       <<"U+114D0", "U+114D1", "U+114D2", "U+114D3", "U+114D4", "U+114D5", "U+114D6", "U+114D7", "U+114D8", "U+114D9">>,
       <<"U+11650", "U+11651", "U+11652", "U+11653", "U+11654", "U+11655", "U+11656", "U+11657", "U+11658", "U+11659">>,
       <<"U+116C0", "U+116C1", "U+116C2", "U+116C3", "U+116C4", "U+116C5", "U+116C6", "U+116C7", "U+116C8", "U+116C9">>,
       <<"U+11730", "U+11731", "U+11732", "U+11733", "U+11734", "U+11735", "U+11736", "U+11737", "U+11738", "U+11739">>,
       <<"U+118E0", "U+118E1", "U+118E2", "U+118E3", "U+118E4", "U+118E5", "U+118E6", "U+118E7", "U+118E8", "U+118E9">>,
       <<"U+11950", "U+11951", "U+11952", "U+11953", "U+11954", "U+11955", "U+11956", "U+11957", "U+11958", "U+11959">>,
       <<"U+11C50", "U+11C51", "U+11C52", "U+11C53", "U+11C54", "U+11C55", "U+11C56", "U+11C57", "U+11C58", "U+11C59">>,
       <<"U+11D50", "U+11D51", "U+11D52", "U+11D53", "U+11D54", "U+11D55", "U+11D56", "U+11D57", "U+11D58", "U+11D59">>,
       <<"U+11DA0", "U+11DA1", "U+11DA2", "U+11DA3", "U+11DA4", "U+11DA5", "U+11DA6", "U+11DA7", "U+11DA8", "U+11DA9">>,
       <<"U+16A60", "U+16A61", "U+16A62", "U+16A63", "U+16A64", "U+16A65", "U+16A66", "U+16A67", "U+16A68", "U+16A69">>,
       <<"U+16AC0", "U+16AC1", "U+16AC2", "U+16AC3", "U+16AC4", "U+16AC5", "U+16AC6", "U+16AC7", "U+16AC8", "U+16AC9">>,
       <<"U+16B50", "U+16B51", "U+16B52", "U+16B53", "U+16B54", "U+16B55", "U+16B56", "U+16B57", "U+16B58", "U+16B59">>,
       <<"U+1D7CE", "U+1D7CF", "U+1D7D0", "U+1D7D1", "U+1D7D2", "U+1D7D3", "U+1D7D4", "U+1D7D5", "U+1D7D6", "U+1D7D7">>,
       <<"U+1D7D8", "U+1D7D9", "U+1D7DA", "U+1D7DB", "U+1D7DC", "U+1D7DD", "U+1D7DE", "U+1D7DF", "U+1D7E0", "U+1D7E1">>,
       <<"U+1D7E2", "U+1D7E3", "U+1D7E4", "U+1D7E5", "U+1D7E6", "U+1D7E7", "U+1D7E8", "U+1D7E9", "U+1D7EA", "U+1D7EB">>,
       <<"U+1D7EC", "U+1D7ED", "U+1D7EE", "U+1D7EF", "U+1D7F0", "U+1D7F1", "U+1D7F2", "U+1D7F3", "U+1D7F4", "U+1D7F5">>,
       <<"U+1D7F6", "U+1D7F7", "U+1D7F8", "U+1D7F9", "U+1D7FA", "U+1D7FB", "U+1D7FC", "U+1D7FD", "U+1D7FE", "U+1D7FF">>,
       <<"U+1E140", "U+1E141", "U+1E142", "U+1E143", "U+1E144", "U+1E145", "U+1E146", "U+1E147", "U+1E148", "U+1E149">>,
       <<"U+1E2F0", "U+1E2F1", "U+1E2F2", "U+1E2F3", "U+1E2F4", "U+1E2F5", "U+1E2F6", "U+1E2F7", "U+1E2F8", "U+1E2F9">>,
       <<"U+1E950", "U+1E951", "U+1E952", "U+1E953", "U+1E954", "U+1E955", "U+1E956", "U+1E957", "U+1E958", "U+1E959">>,
       <<"U+1FBF0", "U+1FBF1", "U+1FBF2", "U+1FBF3", "U+1FBF4", "U+1FBF5", "U+1FBF6", "U+1FBF7", "U+1FBF8", "U+1FBF9">> >>

\* The characters outside ASCII that str.lower() changes, each followed
\* by its lower case; U+0130 and U+03A3 are dealt with in LowerChar
LowerPairs ==
    << "U+00C0", "U+00E0", "U+00C1", "U+00E1", "U+00C2", "U+00E2", "U+00C3",
       "U+00E3", "U+00C4", "U+00E4", "U+00C5", "U+00E5", "U+00C6", "U+00E6",
       "U+00C7", "U+00E7", "U+00C8", "U+00E8", "U+00C9", "U+00E9", "U+00CA",
       "U+00EA", "U+00CB", "U+00EB", "U+00CC", "U+00EC", "U+00CD", "U+00ED",
       "U+00CE", "U+00EE", "U+00CF", "U+00EF", "U+00D0", "U+00F0", "U+00D1",
       "U+00F1", "U+00D2", "U+00F2", "U+00D3", "U+00F3", "U+00D4", "U+00F4",
       "U+00D5", "U+00F5", "U+00D6", "U+00F6", "U+00D8", "U+00F8", "U+00D9",
       "U+00F9", "U+00DA", "U+00FA", "U+00DB", "U+00FB", "U+00DC", "U+00FC",
       "U+00DD", "U+00FD", "U+00DE", "U+00FE", "U+0100", "U+0101", "U+0102",
       "U+0103", "U+0104", "U+0105", "U+0106", "U+0107", "U+0108", "U+0109",
       "U+010A", "U+010B", "U+010C", "U+010D", "U+010E", "U+010F", "U+0110",
       "U+0111", "U+0112", "U+0113", "U+0114", "U+0115", "U+0116", "U+0117",
       "U+0118", "U+0119", "U+011A", "U+011B", "U+011C", "U+011D", "U+011E",
       "U+011F", "U+0120", "U+0121", "U+0122", "U+0123", "U+0124", "U+0125",
       "U+0126", "U+0127", "U+0128", "U+0129", "U+012A", "U+012B", "U+012C",
       "U+012D", "U+012E", "U+012F", "U+0132", "U+0133", "U+0134", "U+0135",
       "U+0136", "U+0137", "U+0139", "U+013A", "U+013B", "U+013C", "U+013D",
       "U+013E", "U+013F", "U+0140", "U+0141", "U+0142", "U+0143", "U+0144",
       "U+0145", "U+0146", "U+0147", "U+0148", "U+014A", "U+014B", "U+014C",
       "U+014D", "U+014E", "U+014F", "U+0150", "U+0151", "U+0152", "U+0153",
       "U+0154", "U+0155", "U+0156", "U+0157", "U+0158", "U+0159", "U+015A",
       "U+015B", "U+015C", "U+015D", "U+015E", "U+015F", "U+0160", "U+0161",
       "U+0162", "U+0163", "U+0164", "U+0165", "U+0166", "U+0167", "U+0168",
       "U+0169", "U+016A", "U+016B", "U+016C", "U+016D", "U+016E", "U+016F",
       "U+0170", "U+0171", "U+0172", "U+0173", "U+0174", "U+0175", "U+0176",
       "U+0177", "U+0178", "U+00FF", "U+0179", "U+017A", "U+017B", "U+017C",
       "U+017D", "U+017E", "U+0181", "U+0253", "U+0182", "U+0183", "U+0184",
       "U+0185", "U+0186", "U+0254", "U+0187", "U+0188", "U+0189", "U+0256",
       "U+018A", "U+0257", "U+018B", "U+018C", "U+018E", "U+01DD", "U+018F",
       "U+0259", "U+0190", "U+025B", "U+0191", "U+0192", "U+0193", "U+0260",
       "U+0194", "U+0263", "U+0196", "U+0269", "U+0197", "U+0268", "U+0198",
       "U+0199", "U+019C", "U+026F", "U+019D", "U+0272", "U+019F", "U+0275",
       "U+01A0", "U+01A1", "U+01A2", "U+01A3", "U+01A4", "U+01A5", "U+01A6",
       "U+0280", "U+01A7", "U+01A8", "U+01A9", "U+0283", "U+01AC", "U+01AD",
       "U+01AE", "U+0288", "U+01AF", "U+01B0", "U+01B1", "U+028A", "U+01B2",
       "U+028B", "U+01B3", "U+01B4", "U+01B5", "U+01B6", "U+01B7", "U+0292",
       "U+01B8", "U+01B9", "U+01BC", "U+01BD", "U+01C4", "U+01C6", "U+01C5",
       "U+01C6", "U+01C7", "U+01C9", "U+01C8", "U+01C9", "U+01CA", "U+01CC",
       "U+01CB", "U+01CC", "U+01CD", "U+01CE", "U+01CF", "U+01D0", "U+01D1",
       "U+01D2", "U+01D3", "U+01D4", "U+01D5", "U+01D6", "U+01D7", "U+01D8",
       "U+01D9", "U+01DA", "U+01DB", "U+01DC", "U+01DE", "U+01DF", "U+01E0",
       "U+01E1", "U+01E2", "U+01E3", "U+01E4", "U+01E5", "U+01E6", "U+01E7",
       "U+01E8", "U+01E9", "U+01EA", "U+01EB", "U+01EC", "U+01ED", "U+01EE",
       "U+01EF", "U+01F1", "U+01F3", "U+01F2", "U+01F3", "U+01F4", "U+01F5",
       "U+01F6", "U+0195", "U+01F7", "U+01BF", "U+01F8", "U+01F9", "U+01FA",
       "U+01FB", "U+01FC", "U+01FD", "U+01FE", "U+01FF", "U+0200", "U+0201",
       "U+0202", "U+0203", "U+0204", "U+0205", "U+0206", "U+0207", "U+0208",
       "U+0209", "U+020A", "U+020B", "U+020C", "U+020D", "U+020E", "U+020F",
       "U+0210", "U+0211", "U+0212", "U+0213", "U+0214", "U+0215", "U+0216",
       "U+0217", "U+0218", "U+0219", "U+021A", "U+021B", "U+021C", "U+021D",
       "U+021E", "U+021F", "U+0220", "U+019E", "U+0222", "U+0223", "U+0224",
       "U+0225", "U+0226", "U+0227", "U+0228", "U+0229", "U+022A", "U+022B",
       "U+022C", "U+022D", "U+022E", "U+022F", "U+0230", "U+0231", "U+0232",
       "U+0233", "U+023A", "U+2C65", "U+023B", "U+023C", "U+023D", "U+019A",
       "U+023E", "U+2C66", "U+0241", "U+0242", "U+0243", "U+0180", "U+0244",
       "U+0289", "U+0245", "U+028C", "U+0246", "U+0247", "U+0248", "U+0249",
       "U+024A", "U+024B", "U+024C", "U+024D", "U+024E", "U+024F", "U+0370",
       "U+0371", "U+0372", "U+0373", "U+0376", "U+0377", "U+037F", "U+03F3",
       "U+0386", "U+03AC", "U+0388", "U+03AD", "U+0389", "U+03AE", "U+038A",
       "U+03AF", "U+038C", "U+03CC", "U+038E", "U+03CD", "U+038F", "U+03CE",
       "U+0391", "U+03B1", "U+0392", "U+03B2", "U+0393", "U+03B3", "U+0394",
       "U+03B4", "U+0395", "U+03B5", "U+0396", "U+03B6", "U+0397", "U+03B7",
       "U+0398", "U+03B8", "U+0399", "U+03B9", "U+039A", "U+03BA", "U+039B",
       "U+03BB", "U+039C", "U+03BC", "U+039D", "U+03BD", "U+039E", "U+03BE",
       "U+039F", "U+03BF", "U+03A0", "U+03C0", "U+03A1", "U+03C1", "U+03A4",
       "U+03C4", "U+03A5", "U+03C5", "U+03A6", "U+03C6", "U+03A7", "U+03C7",
       "U+03A8", "U+03C8", "U+03A9", "U+03C9", "U+03AA", "U+03CA", "U+03AB",
       "U+03CB", "U+03CF", "U+03D7", "U+03D8", "U+03D9", "U+03DA", "U+03DB",
       "U+03DC", "U+03DD", "U+03DE", "U+03DF", "U+03E0", "U+03E1", "U+03E2",
       "U+03E3", "U+03E4", "U+03E5", "U+03E6", "U+03E7", "U+03E8", "U+03E9",
       "U+03EA", "U+03EB", "U+03EC", "U+03ED", "U+03EE", "U+03EF", "U+03F4",
       "U+03B8", "U+03F7", "U+03F8", "U+03F9", "U+03F2", "U+03FA", "U+03FB",
       "U+03FD", "U+037B", "U+03FE", "U+037C", "U+03FF", "U+037D", "U+0400",
       "U+0450", "U+0401", "U+0451", "U+0402", "U+0452", "U+0403", "U+0453",
       "U+0404", "U+0454", "U+0405", "U+0455", "U+0406", "U+0456", "U+0407",
       "U+0457", "U+0408", "U+0458", "U+0409", "U+0459", "U+040A", "U+045A",
       "U+040B", "U+045B", "U+040C", "U+045C", "U+040D", "U+045D", "U+040E",
       "U+045E", "U+040F", "U+045F", "U+0410", "U+0430", "U+0411", "U+0431",
       "U+0412", "U+0432", "U+0413", "U+0433", "U+0414", "U+0434", "U+0415",
       "U+0435", "U+0416", "U+0436", "U+0417", "U+0437", "U+0418", "U+0438",
       "U+0419", "U+0439", "U+041A", "U+043A", "U+041B", "U+043B", "U+041C",
       "U+043C", "U+041D", "U+043D", "U+041E", "U+043E", "U+041F", "U+043F",
       "U+0420", "U+0440", "U+0421", "U+0441", "U+0422", "U+0442", "U+0423",
       "U+0443", "U+0424", "U+0444", "U+0425", "U+0445", "U+0426", "U+0446",
       "U+0427", "U+0447", "U+0428", "U+0448", "U+0429", "U+0449", "U+042A",
       "U+044A", "U+042B", "U+044B", "U+042C", "U+044C", "U+042D", "U+044D",
       "U+042E", "U+044E", "U+042F", "U+044F", "U+0460", "U+0461", "U+0462",
       "U+0463", "U+0464", "U+0465", "U+0466", "U+0467", "U+0468", "U+0469",
       "U+046A", "U+046B", "U+046C", "U+046D", "U+046E", "U+046F", "U+0470",
       "U+0471", "U+0472", "U+0473", "U+0474", "U+0475", "U+0476", "U+0477",
       "U+0478", "U+0479", "U+047A", "U+047B", "U+047C", "U+047D", "U+047E",
       "U+047F", "U+0480", "U+0481", "U+048A", "U+048B", "U+048C", "U+048D",
       "U+048E", "U+048F", "U+0490", "U+0491", "U+0492", "U+0493", "U+0494",
       "U+0495", "U+0496", "U+0497", "U+0498", "U+0499", "U+049A", "U+049B",
       "U+049C", "U+049D", "U+049E", "U+049F", "U+04A0", "U+04A1", "U+04A2",
       "U+04A3", "U+04A4", "U+04A5", "U+04A6", "U+04A7", "U+04A8", "U+04A9",
       "U+04AA", "U+04AB", "U+04AC", "U+04AD", "U+04AE", "U+04AF", "U+04B0",
       "U+04B1", "U+04B2", "U+04B3", "U+04B4", "U+04B5", "U+04B6", "U+04B7",
       "U+04B8", "U+04B9", "U+04BA", "U+04BB", "U+04BC", "U+04BD", "U+04BE",
       "U+04BF", "U+04C0", "U+04CF", "U+04C1", "U+04C2", "U+04C3", "U+04C4",
       "U+04C5", "U+04C6", "U+04C7", "U+04C8", "U+04C9", "U+04CA", "U+04CB",
       "U+04CC", "U+04CD", "U+04CE", "U+04D0", "U+04D1", "U+04D2", "U+04D3",
       "U+04D4", "U+04D5", "U+04D6", "U+04D7", "U+04D8", "U+04D9", "U+04DA",
       "U+04DB", "U+04DC", "U+04DD", "U+04DE", "U+04DF", "U+04E0", "U+04E1",
       "U+04E2", "U+04E3", "U+04E4", "U+04E5", "U+04E6", "U+04E7", "U+04E8",
       "U+04E9", "U+04EA", "U+04EB", "U+04EC", "U+04ED", "U+04EE", "U+04EF",
       "U+04F0", "U+04F1", "U+04F2", "U+04F3", "U+04F4", "U+04F5", "U+04F6",
       "U+04F7", "U+04F8", "U+04F9", "U+04FA", "U+04FB", "U+04FC", "U+04FD",
       "U+04FE", "U+04FF", "U+0500", "U+0501", "U+0502", "U+0503", "U+0504",
       "U+0505", "U+0506", "U+0507", "U+0508", "U+0509", "U+050A", "U+050B",
       "U+050C", "U+050D", "U+050E", "U+050F", "U+0510", "U+0511", "U+0512",
       "U+0513", "U+0514", "U+0515", "U+0516", "U+0517", "U+0518", "U+0519",
       "U+051A", "U+051B", "U+051C", "U+051D", "U+051E", "U+051F", "U+0520",
       "U+0521", "U+0522", "U+0523", "U+0524", "U+0525", "U+0526", "U+0527",
       "U+0528", "U+0529", "U+052A", "U+052B", "U+052C", "U+052D", "U+052E",
       "U+052F", "U+0531", "U+0561", "U+0532", "U+0562", "U+0533", "U+0563",
       "U+0534", "U+0564", "U+0535", "U+0565", "U+0536", "U+0566", "U+0537",
       "U+0567", "U+0538", "U+0568", "U+0539", "U+0569", "U+053A", "U+056A",
       "U+053B", "U+056B", "U+053C", "U+056C", "U+053D", "U+056D", "U+053E",
       "U+056E", "U+053F", "U+056F", "U+0540", "U+0570", "U+0541", "U+0571",
       "U+0542", "U+0572", "U+0543", "U+0573", "U+0544", "U+0574", "U+0545",
       "U+0575", "U+0546", "U+0576", "U+0547", "U+0577", "U+0548", "U+0578",
       "U+0549", "U+0579", "U+054A", "U+057A", "U+054B", "U+057B", "U+054C",
       "U+057C", "U+054D", "U+057D", "U+054E", "U+057E", "U+054F", "U+057F",
       "U+0550", "U+0580", "U+0551", "U+0581", "U+0552", "U+0582", "U+0553",
       "U+0583", "U+0554", "U+0584", "U+0555", "U+0585", "U+0556", "U+0586",
       "U+10A0", "U+2D00", "U+10A1", "U+2D01", "U+10A2", "U+2D02", "U+10A3",
       "U+2D03", "U+10A4", "U+2D04", "U+10A5", "U+2D05", "U+10A6", "U+2D06",
       "U+10A7", "U+2D07", "U+10A8", "U+2D08", "U+10A9", "U+2D09", "U+10AA",
       "U+2D0A", "U+10AB", "U+2D0B", "U+10AC", "U+2D0C", "U+10AD", "U+2D0D",
       "U+10AE", "U+2D0E", "U+10AF", "U+2D0F", "U+10B0", "U+2D10", "U+10B1",
       "U+2D11", "U+10B2", "U+2D12", "U+10B3", "U+2D13", "U+10B4", "U+2D14",
       "U+10B5", "U+2D15", "U+10B6", "U+2D16", "U+10B7", "U+2D17", "U+10B8",
       "U+2D18", "U+10B9", "U+2D19", "U+10BA", "U+2D1A", "U+10BB", "U+2D1B",
       "U+10BC", "U+2D1C", "U+10BD", "U+2D1D", "U+10BE", "U+2D1E", "U+10BF",
       "U+2D1F", "U+10C0", "U+2D20", "U+10C1", "U+2D21", "U+10C2", "U+2D22",
       "U+10C3", "U+2D23", "U+10C4", "U+2D24", "U+10C5", "U+2D25", "U+10C7",
       "U+2D27", "U+10CD", "U+2D2D", "U+13A0", "U+AB70", "U+13A1", "U+AB71",
       "U+13A2", "U+AB72", "U+13A3", "U+AB73", "U+13A4", "U+AB74", "U+13A5",
       "U+AB75", "U+13A6", "U+AB76", "U+13A7", "U+AB77", "U+13A8", "U+AB78",
       "U+13A9", "U+AB79", "U+13AA", "U+AB7A", "U+13AB", "U+AB7B", "U+13AC",
       "U+AB7C", "U+13AD", "U+AB7D", "U+13AE", "U+AB7E", "U+13AF", "U+AB7F",
       "U+13B0", "U+AB80", "U+13B1", "U+AB81", "U+13B2", "U+AB82", "U+13B3",
       "U+AB83", "U+13B4", "U+AB84", "U+13B5", "U+AB85", "U+13B6", "U+AB86",
       "U+13B7", "U+AB87", "U+13B8", "U+AB88", "U+13B9", "U+AB89", "U+13BA",
       "U+AB8A", "U+13BB", "U+AB8B", "U+13BC", "U+AB8C", "U+13BD", "U+AB8D",
       "U+13BE", "U+AB8E", "U+13BF", "U+AB8F", "U+13C0", "U+AB90", "U+13C1",
       "U+AB91", "U+13C2", "U+AB92", "U+13C3", "U+AB93", "U+13C4", "U+AB94",
       "U+13C5", "U+AB95", "U+13C6", "U+AB96", "U+13C7", "U+AB97", "U+13C8",
       "U+AB98", "U+13C9", "U+AB99", "U+13CA", "U+AB9A", "U+13CB", "U+AB9B",
       "U+13CC", "U+AB9C", "U+13CD", "U+AB9D", "U+13CE", "U+AB9E", "U+13CF",
       "U+AB9F", "U+13D0", "U+ABA0", "U+13D1", "U+ABA1", "U+13D2", "U+ABA2",
       "U+13D3", "U+ABA3", "U+13D4", "U+ABA4", "U+13D5", "U+ABA5", "U+13D6",
       "U+ABA6", "U+13D7", "U+ABA7", "U+13D8", "U+ABA8", "U+13D9", "U+ABA9",
       "U+13DA", "U+ABAA", "U+13DB", "U+ABAB", "U+13DC", "U+ABAC", "U+13DD",
       "U+ABAD", "U+13DE", "U+ABAE", "U+13DF", "U+ABAF", "U+13E0", "U+ABB0",
       "U+13E1", "U+ABB1", "U+13E2", "U+ABB2", "U+13E3", "U+ABB3", "U+13E4",
       "U+ABB4", "U+13E5", "U+ABB5", "U+13E6", "U+ABB6", "U+13E7", "U+ABB7",
       "U+13E8", "U+ABB8", "U+13E9", "U+ABB9", "U+13EA", "U+ABBA", "U+13EB",
       "U+ABBB", "U+13EC", "U+ABBC", "U+13ED", "U+ABBD", "U+13EE", "U+ABBE",
       "U+13EF", "U+ABBF", "U+13F0", "U+13F8", "U+13F1", "U+13F9", "U+13F2",
       "U+13FA", "U+13F3", "U+13FB", "U+13F4", "U+13FC", "U+13F5", "U+13FD",
       "U+1C90", "U+10D0", "U+1C91", "U+10D1", "U+1C92", "U+10D2", "U+1C93",
       "U+10D3", "U+1C94", "U+10D4", "U+1C95", "U+10D5", "U+1C96", "U+10D6",
       "U+1C97", "U+10D7", "U+1C98", "U+10D8", "U+1C99", "U+10D9", "U+1C9A",
       "U+10DA", "U+1C9B", "U+10DB", "U+1C9C", "U+10DC", "U+1C9D", "U+10DD",
       "U+1C9E", "U+10DE", "U+1C9F", "U+10DF", "U+1CA0", "U+10E0", "U+1CA1",
       "U+10E1", "U+1CA2", "U+10E2", "U+1CA3", "U+10E3", "U+1CA4", "U+10E4",
       "U+1CA5", "U+10E5", "U+1CA6", "U+10E6", "U+1CA7", "U+10E7", "U+1CA8",
       "U+10E8", "U+1CA9", "U+10E9", "U+1CAA", "U+10EA", "U+1CAB", "U+10EB",
       "U+1CAC", "U+10EC", "U+1CAD", "U+10ED", "U+1CAE", "U+10EE", "U+1CAF",
       "U+10EF", "U+1CB0", "U+10F0", "U+1CB1", "U+10F1", "U+1CB2", "U+10F2",
       "U+1CB3", "U+10F3", "U+1CB4", "U+10F4", "U+1CB5", "U+10F5", "U+1CB6",
       "U+10F6", "U+1CB7", "U+10F7", "U+1CB8", "U+10F8", "U+1CB9", "U+10F9",
       "U+1CBA", "U+10FA", "U+1CBD", "U+10FD", "U+1CBE", "U+10FE", "U+1CBF",
       "U+10FF", "U+1E00", "U+1E01", "U+1E02", "U+1E03", "U+1E04", "U+1E05",
       "U+1E06", "U+1E07", "U+1E08", "U+1E09", "U+1E0A", "U+1E0B", "U+1E0C",
       "U+1E0D", "U+1E0E", "U+1E0F", "U+1E10", "U+1E11", "U+1E12", "U+1E13",
       "U+1E14", "U+1E15", "U+1E16", "U+1E17", "U+1E18", "U+1E19", "U+1E1A",
       "U+1E1B", "U+1E1C", "U+1E1D", "U+1E1E", "U+1E1F", "U+1E20", "U+1E21",
       "U+1E22", "U+1E23", "U+1E24", "U+1E25", "U+1E26", "U+1E27", "U+1E28",
       "U+1E29", "U+1E2A", "U+1E2B", "U+1E2C", "U+1E2D", "U+1E2E", "U+1E2F",
       "U+1E30", "U+1E31", "U+1E32", "U+1E33", "U+1E34", "U+1E35", "U+1E36",
       "U+1E37", "U+1E38", "U+1E39", "U+1E3A", "U+1E3B", "U+1E3C", "U+1E3D",
       "U+1E3E", "U+1E3F", "U+1E40", "U+1E41", "U+1E42", "U+1E43", "U+1E44",
       "U+1E45", "U+1E46", "U+1E47", "U+1E48", "U+1E49", "U+1E4A", "U+1E4B",
       "U+1E4C", "U+1E4D", "U+1E4E", "U+1E4F", "U+1E50", "U+1E51", "U+1E52",
       "U+1E53", "U+1E54", "U+1E55", "U+1E56", "U+1E57", "U+1E58", "U+1E59",
       "U+1E5A", "U+1E5B", "U+1E5C", "U+1E5D", "U+1E5E", "U+1E5F", "U+1E60",
       "U+1E61", "U+1E62", "U+1E63", "U+1E64", "U+1E65", "U+1E66", "U+1E67",
       "U+1E68", "U+1E69", "U+1E6A", "U+1E6B", "U+1E6C", "U+1E6D", "U+1E6E",
       "U+1E6F", "U+1E70", "U+1E71", "U+1E72", "U+1E73", "U+1E74", "U+1E75",
       "U+1E76", "U+1E77", "U+1E78", "U+1E79", "U+1E7A", "U+1E7B", "U+1E7C",
       "U+1E7D", "U+1E7E", "U+1E7F", "U+1E80", "U+1E81", "U+1E82", "U+1E83",
       "U+1E84", "U+1E85", "U+1E86", "U+1E87", "U+1E88", "U+1E89", "U+1E8A",
       "U+1E8B", "U+1E8C", "U+1E8D", "U+1E8E", "U+1E8F", "U+1E90", "U+1E91",
       "U+1E92", "U+1E93", "U+1E94", "U+1E95", "U+1E9E", "U+00DF", "U+1EA0",
       "U+1EA1", "U+1EA2", "U+1EA3", "U+1EA4", "U+1EA5", "U+1EA6", "U+1EA7",
       "U+1EA8", "U+1EA9", "U+1EAA", "U+1EAB", "U+1EAC", "U+1EAD", "U+1EAE",
       "U+1EAF", "U+1EB0", "U+1EB1", "U+1EB2", "U+1EB3", "U+1EB4", "U+1EB5",
       "U+1EB6", "U+1EB7", "U+1EB8", "U+1EB9", "U+1EBA", "U+1EBB", "U+1EBC",
       "U+1EBD", "U+1EBE", "U+1EBF", "U+1EC0", "U+1EC1", "U+1EC2", "U+1EC3",
       "U+1EC4", "U+1EC5", "U+1EC6", "U+1EC7", "U+1EC8", "U+1EC9", "U+1ECA",
       "U+1ECB", "U+1ECC", "U+1ECD", "U+1ECE", "U+1ECF", "U+1ED0", "U+1ED1",
       "U+1ED2", "U+1ED3", "U+1ED4", "U+1ED5", "U+1ED6", "U+1ED7", "U+1ED8",
       "U+1ED9", "U+1EDA", "U+1EDB", "U+1EDC", "U+1EDD", "U+1EDE", "U+1EDF",
       "U+1EE0", "U+1EE1", "U+1EE2", "U+1EE3", "U+1EE4", "U+1EE5", "U+1EE6",
       "U+1EE7", "U+1EE8", "U+1EE9", "U+1EEA", "U+1EEB", "U+1EEC", "U+1EED",
       "U+1EEE", "U+1EEF", "U+1EF0", "U+1EF1", "U+1EF2", "U+1EF3", "U+1EF4",
       "U+1EF5", "U+1EF6", "U+1EF7", "U+1EF8", "U+1EF9", "U+1EFA", "U+1EFB",
       "U+1EFC", "U+1EFD", "U+1EFE", "U+1EFF", "U+1F08", "U+1F00", "U+1F09",
       "U+1F01", "U+1F0A", "U+1F02", "U+1F0B", "U+1F03", "U+1F0C", "U+1F04",
       "U+1F0D", "U+1F05", "U+1F0E", "U+1F06", "U+1F0F", "U+1F07", "U+1F18",
       "U+1F10", "U+1F19", "U+1F11", "U+1F1A", "U+1F12", "U+1F1B", "U+1F13",
       "U+1F1C", "U+1F14", "U+1F1D", "U+1F15", "U+1F28", "U+1F20", "U+1F29",
       "U+1F21", "U+1F2A", "U+1F22", "U+1F2B", "U+1F23", "U+1F2C", "U+1F24",
       "U+1F2D", "U+1F25", "U+1F2E", "U+1F26", "U+1F2F", "U+1F27", "U+1F38",
       "U+1F30", "U+1F39", "U+1F31", "U+1F3A", "U+1F32", "U+1F3B", "U+1F33",
       "U+1F3C", "U+1F34", "U+1F3D", "U+1F35", "U+1F3E", "U+1F36", "U+1F3F",
       "U+1F37", "U+1F48", "U+1F40", "U+1F49", "U+1F41", "U+1F4A", "U+1F42",
       "U+1F4B", "U+1F43", "U+1F4C", "U+1F44", "U+1F4D", "U+1F45", "U+1F59",
       "U+1F51", "U+1F5B", "U+1F53", "U+1F5D", "U+1F55", "U+1F5F", "U+1F57",
       "U+1F68", "U+1F60", "U+1F69", "U+1F61", "U+1F6A", "U+1F62", "U+1F6B",
       "U+1F63", "U+1F6C", "U+1F64", "U+1F6D", "U+1F65", "U+1F6E", "U+1F66",
       "U+1F6F", "U+1F67", "U+1F88", "U+1F80", "U+1F89", "U+1F81", "U+1F8A",
       "U+1F82", "U+1F8B", "U+1F83", "U+1F8C", "U+1F84", "U+1F8D", "U+1F85",
       "U+1F8E", "U+1F86", "U+1F8F", "U+1F87", "U+1F98", "U+1F90", "U+1F99",
       "U+1F91", "U+1F9A", "U+1F92", "U+1F9B", "U+1F93", "U+1F9C", "U+1F94",
       "U+1F9D", "U+1F95", "U+1F9E", "U+1F96", "U+1F9F", "U+1F97", "U+1FA8",
       "U+1FA0", "U+1FA9", "U+1FA1", "U+1FAA", "U+1FA2", "U+1FAB", "U+1FA3",
       "U+1FAC", "U+1FA4", "U+1FAD", "U+1FA5", "U+1FAE", "U+1FA6", "U+1FAF",
       "U+1FA7", "U+1FB8", "U+1FB0", "U+1FB9", "U+1FB1", "U+1FBA", "U+1F70",
       "U+1FBB", "U+1F71", "U+1FBC", "U+1FB3", "U+1FC8", "U+1F72", "U+1FC9",
       "U+1F73", "U+1FCA", "U+1F74", "U+1FCB", "U+1F75", "U+1FCC", "U+1FC3",
       "U+1FD8", "U+1FD0", "U+1FD9", "U+1FD1", "U+1FDA", "U+1F76", "U+1FDB",
       "U+1F77", "U+1FE8", "U+1FE0", "U+1FE9", "U+1FE1", "U+1FEA", "U+1F7A",
       "U+1FEB", "U+1F7B", "U+1FEC", "U+1FE5", "U+1FF8", "U+1F78", "U+1FF9",
       "U+1F79", "U+1FFA", "U+1F7C", "U+1FFB", "U+1F7D", "U+1FFC", "U+1FF3",
       "U+2126", "U+03C9", "U+212A", "k", "U+212B", "U+00E5", "U+2132",
       "U+214E", "U+2160", "U+2170", "U+2161", "U+2171", "U+2162", "U+2172",
       "U+2163", "U+2173", "U+2164", "U+2174", "U+2165", "U+2175", "U+2166",
       "U+2176", "U+2167", "U+2177", "U+2168", "U+2178", "U+2169", "U+2179",
       "U+216A", "U+217A", "U+216B", "U+217B", "U+216C", "U+217C", "U+216D",
       "U+217D", "U+216E", "U+217E", "U+216F", "U+217F", "U+2183", "U+2184",
       "U+24B6", "U+24D0", "U+24B7", "U+24D1", "U+24B8", "U+24D2", "U+24B9",
       "U+24D3", "U+24BA", "U+24D4", "U+24BB", "U+24D5", "U+24BC", "U+24D6",
       "U+24BD", "U+24D7", "U+24BE", "U+24D8", "U+24BF", "U+24D9", "U+24C0",
       "U+24DA", "U+24C1", "U+24DB", "U+24C2", "U+24DC", "U+24C3", "U+24DD",
       "U+24C4", "U+24DE", "U+24C5", "U+24DF", "U+24C6", "U+24E0", "U+24C7",
       "U+24E1", "U+24C8", "U+24E2", "U+24C9", "U+24E3", "U+24CA", "U+24E4",
       "U+24CB", "U+24E5", "U+24CC", "U+24E6", "U+24CD", "U+24E7", "U+24CE",
       "U+24E8", "U+24CF", "U+24E9", "U+2C00", "U+2C30", "U+2C01", "U+2C31",
       "U+2C02", "U+2C32", "U+2C03", "U+2C33", "U+2C04", "U+2C34", "U+2C05",
       "U+2C35", "U+2C06", "U+2C36", "U+2C07", "U+2C37", "U+2C08", "U+2C38",
       "U+2C09", "U+2C39", "U+2C0A", "U+2C3A", "U+2C0B", "U+2C3B", "U+2C0C",
       "U+2C3C", "U+2C0D", "U+2C3D", "U+2C0E", "U+2C3E", "U+2C0F", "U+2C3F",
       "U+2C10", "U+2C40", "U+2C11", "U+2C41", "U+2C12", "U+2C42", "U+2C13",
       "U+2C43", "U+2C14", "U+2C44", "U+2C15", "U+2C45", "U+2C16", "U+2C46",
       "U+2C17", "U+2C47", "U+2C18", "U+2C48", "U+2C19", "U+2C49", "U+2C1A",
       "U+2C4A", "U+2C1B", "U+2C4B", "U+2C1C", "U+2C4C", "U+2C1D", "U+2C4D",
       "U+2C1E", "U+2C4E", "U+2C1F", "U+2C4F", "U+2C20", "U+2C50", "U+2C21",
       "U+2C51", "U+2C22", "U+2C52", "U+2C23", "U+2C53", "U+2C24", "U+2C54",
       "U+2C25", "U+2C55", "U+2C26", "U+2C56", "U+2C27", "U+2C57", "U+2C28",
       "U+2C58", "U+2C29", "U+2C59", "U+2C2A", "U+2C5A", "U+2C2B", "U+2C5B",
       "U+2C2C", "U+2C5C", "U+2C2D", "U+2C5D", "U+2C2E", "U+2C5E", "U+2C2F",
       "U+2C5F", "U+2C60", "U+2C61", "U+2C62", "U+026B", "U+2C63", "U+1D7D",
       "U+2C64", "U+027D", "U+2C67", "U+2C68", "U+2C69", "U+2C6A", "U+2C6B",
       "U+2C6C", "U+2C6D", "U+0251", "U+2C6E", "U+0271", "U+2C6F", "U+0250",
       "U+2C70", "U+0252", "U+2C72", "U+2C73", "U+2C75", "U+2C76", "U+2C7E",
       "U+023F", "U+2C7F", "U+0240", "U+2C80", "U+2C81", "U+2C82", "U+2C83",
       "U+2C84", "U+2C85", "U+2C86", "U+2C87", "U+2C88", "U+2C89", "U+2C8A",
       "U+2C8B", "U+2C8C", "U+2C8D", "U+2C8E", "U+2C8F", "U+2C90", "U+2C91",
       "U+2C92", "U+2C93", "U+2C94", "U+2C95", "U+2C96", "U+2C97", "U+2C98",
       "U+2C99", "U+2C9A", "U+2C9B", "U+2C9C", "U+2C9D", "U+2C9E", "U+2C9F",
       "U+2CA0", "U+2CA1", "U+2CA2", "U+2CA3", "U+2CA4", "U+2CA5", "U+2CA6",
       "U+2CA7", "U+2CA8", "U+2CA9", "U+2CAA", "U+2CAB", "U+2CAC", "U+2CAD",
       "U+2CAE", "U+2CAF", "U+2CB0", "U+2CB1", "U+2CB2", "U+2CB3", "U+2CB4",
       "U+2CB5", "U+2CB6", "U+2CB7", "U+2CB8", "U+2CB9", "U+2CBA", "U+2CBB",
       "U+2CBC", "U+2CBD", "U+2CBE", "U+2CBF", "U+2CC0", "U+2CC1", "U+2CC2",
       "U+2CC3", "U+2CC4", "U+2CC5", "U+2CC6", "U+2CC7", "U+2CC8", "U+2CC9",
       "U+2CCA", "U+2CCB", "U+2CCC", "U+2CCD", "U+2CCE", "U+2CCF", "U+2CD0",
       "U+2CD1", "U+2CD2", "U+2CD3", "U+2CD4", "U+2CD5", "U+2CD6", "U+2CD7",
       "U+2CD8", "U+2CD9", "U+2CDA", "U+2CDB", "U+2CDC", "U+2CDD", "U+2CDE",
       "U+2CDF", "U+2CE0", "U+2CE1", "U+2CE2", "U+2CE3", "U+2CEB", "U+2CEC",
       "U+2CED", "U+2CEE", "U+2CF2", "U+2CF3", "U+A640", "U+A641", "U+A642",
       "U+A643", "U+A644", "U+A645", "U+A646", "U+A647", "U+A648", "U+A649",
       "U+A64A", "U+A64B", "U+A64C", "U+A64D", "U+A64E", "U+A64F", "U+A650",
       "U+A651", "U+A652", "U+A653", "U+A654", "U+A655", "U+A656", "U+A657",
       "U+A658", "U+A659", "U+A65A", "U+A65B", "U+A65C", "U+A65D", "U+A65E",
       "U+A65F", "U+A660", "U+A661", "U+A662", "U+A663", "U+A664", "U+A665",
       "U+A666", "U+A667", "U+A668", "U+A669", "U+A66A", "U+A66B", "U+A66C",
       "U+A66D", "U+A680", "U+A681", "U+A682", "U+A683", "U+A684", "U+A685",
       "U+A686", "U+A687", "U+A688", "U+A689", "U+A68A", "U+A68B", "U+A68C",
       "U+A68D", "U+A68E", "U+A68F", "U+A690", "U+A691", "U+A692", "U+A693",
       "U+A694", "U+A695", "U+A696", "U+A697", "U+A698", "U+A699", "U+A69A",
       "U+A69B", "U+A722", "U+A723", "U+A724", "U+A725", "U+A726", "U+A727",
       "U+A728", "U+A729", "U+A72A", "U+A72B", "U+A72C", "U+A72D", "U+A72E",
       "U+A72F", "U+A732", "U+A733", "U+A734", "U+A735", "U+A736", "U+A737",
       "U+A738", "U+A739", "U+A73A", "U+A73B", "U+A73C", "U+A73D", "U+A73E",
       "U+A73F", "U+A740", "U+A741", "U+A742", "U+A743", "U+A744", "U+A745",
       "U+A746", "U+A747", "U+A748", "U+A749", "U+A74A", "U+A74B", "U+A74C",
       "U+A74D", "U+A74E", "U+A74F", "U+A750", "U+A751", "U+A752", "U+A753",
       "U+A754", "U+A755", "U+A756", "U+A757", "U+A758", "U+A759", "U+A75A",
       "U+A75B", "U+A75C", "U+A75D", "U+A75E", "U+A75F", "U+A760", "U+A761",
       "U+A762", "U+A763", "U+A764", "U+A765", "U+A766", "U+A767", "U+A768",
       "U+A769", "U+A76A", "U+A76B", "U+A76C", "U+A76D", "U+A76E", "U+A76F",
       "U+A779", "U+A77A", "U+A77B", "U+A77C", "U+A77D", "U+1D79", "U+A77E",
       "U+A77F", "U+A780", "U+A781", "U+A782", "U+A783", "U+A784", "U+A785",
       "U+A786", "U+A787", "U+A78B", "U+A78C", "U+A78D", "U+0265", "U+A790",
       "U+A791", "U+A792", "U+A793", "U+A796", "U+A797", "U+A798", "U+A799",
       "U+A79A", "U+A79B", "U+A79C", "U+A79D", "U+A79E", "U+A79F", "U+A7A0",
       "U+A7A1", "U+A7A2", "U+A7A3", "U+A7A4", "U+A7A5", "U+A7A6", "U+A7A7",
       "U+A7A8", "U+A7A9", "U+A7AA", "U+0266", "U+A7AB", "U+025C", "U+A7AC",
       "U+0261", "U+A7AD", "U+026C", "U+A7AE", "U+026A", "U+A7B0", "U+029E",
       "U+A7B1", "U+0287", "U+A7B2", "U+029D", "U+A7B3", "U+AB53", "U+A7B4",
       "U+A7B5", "U+A7B6", "U+A7B7", "U+A7B8", "U+A7B9", "U+A7BA", "U+A7BB",
       "U+A7BC", "U+A7BD", "U+A7BE", "U+A7BF", "U+A7C0", "U+A7C1", "U+A7C2",
       "U+A7C3", "U+A7C4", "U+A794", "U+A7C5", "U+0282", "U+A7C6", "U+1D8E",
       "U+A7C7", "U+A7C8", "U+A7C9", "U+A7CA", "U+A7D0", "U+A7D1", "U+A7D6",
       "U+A7D7", "U+A7D8", "U+A7D9", "U+A7F5", "U+A7F6", "U+FF21", "U+FF41",
       "U+FF22", "U+FF42", "U+FF23", "U+FF43", "U+FF24", "U+FF44", "U+FF25",
       "U+FF45", "U+FF26", "U+FF46", "U+FF27", "U+FF47", "U+FF28", "U+FF48",
       "U+FF29", "U+FF49", "U+FF2A", "U+FF4A", "U+FF2B", "U+FF4B", "U+FF2C",
       "U+FF4C", "U+FF2D", "U+FF4D", "U+FF2E", "U+FF4E", "U+FF2F", "U+FF4F",
       "U+FF30", "U+FF50", "U+FF31", "U+FF51", "U+FF32", "U+FF52", "U+FF33",
       "U+FF53", "U+FF34", "U+FF54", "U+FF35", "U+FF55", "U+FF36", "U+FF56",
       "U+FF37", "U+FF57", "U+FF38", "U+FF58", "U+FF39", "U+FF59", "U+FF3A",
       "U+FF5A", "U+10400", "U+10428", "U+10401", "U+10429", "U+10402",
       "U+1042A", "U+10403", "U+1042B", "U+10404", "U+1042C", "U+10405",
       "U+1042D", "U+10406", "U+1042E", "U+10407", "U+1042F", "U+10408",
       "U+10430", "U+10409", "U+10431", "U+1040A", "U+10432", "U+1040B",
       "U+10433", "U+1040C", "U+10434", "U+1040D", "U+10435", "U+1040E",
       "U+10436", "U+1040F", "U+10437", "U+10410", "U+10438", "U+10411",
       "U+10439", "U+10412", "U+1043A", "U+10413", "U+1043B", "U+10414",
       "U+1043C", "U+10415", "U+1043D", "U+10416", "U+1043E", "U+10417",
       "U+1043F", "U+10418", "U+10440", "U+10419", "U+10441", "U+1041A",
       "U+10442", "U+1041B", "U+10443", "U+1041C", "U+10444", "U+1041D",
       "U+10445", "U+1041E", "U+10446", "U+1041F", "U+10447", "U+10420",
       "U+10448", "U+10421", "U+10449", "U+10422", "U+1044A", "U+10423",
       "U+1044B", "U+10424", "U+1044C", "U+10425", "U+1044D", "U+10426",
       "U+1044E", "U+10427", "U+1044F", "U+104B0", "U+104D8", "U+104B1",
       "U+104D9", "U+104B2", "U+104DA", "U+104B3", "U+104DB", "U+104B4",
       "U+104DC", "U+104B5", "U+104DD", "U+104B6", "U+104DE", "U+104B7",
       "U+104DF", "U+104B8", "U+104E0", "U+104B9", "U+104E1", "U+104BA",
       "U+104E2", "U+104BB", "U+104E3", "U+104BC", "U+104E4", "U+104BD",
       "U+104E5", "U+104BE", "U+104E6", "U+104BF", "U+104E7", "U+104C0",
       "U+104E8", "U+104C1", "U+104E9", "U+104C2", "U+104EA", "U+104C3",
       "U+104EB", "U+104C4", "U+104EC", "U+104C5", "U+104ED", "U+104C6",
       "U+104EE", "U+104C7", "U+104EF", "U+104C8", "U+104F0", "U+104C9",
       "U+104F1", "U+104CA", "U+104F2", "U+104CB", "U+104F3", "U+104CC",
       "U+104F4", "U+104CD", "U+104F5", "U+104CE", "U+104F6", "U+104CF",
       "U+104F7", "U+104D0", "U+104F8", "U+104D1", "U+104F9", "U+104D2",
       "U+104FA", "U+104D3", "U+104FB", "U+10570", "U+10597", "U+10571",
       "U+10598", "U+10572", "U+10599", "U+10573", "U+1059A", "U+10574",
       "U+1059B", "U+10575", "U+1059C", "U+10576", "U+1059D", "U+10577",
       "U+1059E", "U+10578", "U+1059F", "U+10579", "U+105A0", "U+1057A",
       "U+105A1", "U+1057C", "U+105A3", "U+1057D", "U+105A4", "U+1057E",
       "U+105A5", "U+1057F", "U+105A6", "U+10580", "U+105A7", "U+10581",
       "U+105A8", "U+10582", "U+105A9", "U+10583", "U+105AA", "U+10584",
       "U+105AB", "U+10585", "U+105AC", "U+10586", "U+105AD", "U+10587",
       "U+105AE", "U+10588", "U+105AF", "U+10589", "U+105B0", "U+1058A",
       "U+105B1", "U+1058C", "U+105B3", "U+1058D", "U+105B4", "U+1058E",
       "U+105B5", "U+1058F", "U+105B6", "U+10590", "U+105B7", "U+10591",
       "U+105B8", "U+10592", "U+105B9", "U+10594", "U+105BB", "U+10595",
       "U+105BC", "U+10C80", "U+10CC0", "U+10C81", "U+10CC1", "U+10C82",
       "U+10CC2", "U+10C83", "U+10CC3", "U+10C84", "U+10CC4", "U+10C85",
       "U+10CC5", "U+10C86", "U+10CC6", "U+10C87", "U+10CC7", "U+10C88",
       "U+10CC8", "U+10C89", "U+10CC9", "U+10C8A", "U+10CCA", "U+10C8B",
       "U+10CCB", "U+10C8C", "U+10CCC", "U+10C8D", "U+10CCD", "U+10C8E",
       "U+10CCE", "U+10C8F", "U+10CCF", "U+10C90", "U+10CD0", "U+10C91",
       "U+10CD1", "U+10C92", "U+10CD2", "U+10C93", "U+10CD3", "U+10C94",
       "U+10CD4", "U+10C95", "U+10CD5", "U+10C96", "U+10CD6", "U+10C97",
       "U+10CD7", "U+10C98", "U+10CD8", "U+10C99", "U+10CD9", "U+10C9A",
       "U+10CDA", "U+10C9B", "U+10CDB", "U+10C9C", "U+10CDC", "U+10C9D",
       "U+10CDD", "U+10C9E", "U+10CDE", "U+10C9F", "U+10CDF", "U+10CA0",
       "U+10CE0", "U+10CA1", "U+10CE1", "U+10CA2", "U+10CE2", "U+10CA3",
       "U+10CE3", "U+10CA4", "U+10CE4", "U+10CA5", "U+10CE5", "U+10CA6",
       "U+10CE6", "U+10CA7", "U+10CE7", "U+10CA8", "U+10CE8", "U+10CA9",
       "U+10CE9", "U+10CAA", "U+10CEA", "U+10CAB", "U+10CEB", "U+10CAC",
       "U+10CEC", "U+10CAD", "U+10CED", "U+10CAE", "U+10CEE", "U+10CAF",
       "U+10CEF", "U+10CB0", "U+10CF0", "U+10CB1", "U+10CF1", "U+10CB2",
       "U+10CF2", "U+118A0", "U+118C0", "U+118A1", "U+118C1", "U+118A2",
       "U+118C2", "U+118A3", "U+118C3", "U+118A4", "U+118C4", "U+118A5",
       "U+118C5", "U+118A6", "U+118C6", "U+118A7", "U+118C7", "U+118A8",
       "U+118C8", "U+118A9", "U+118C9", "U+118AA", "U+118CA", "U+118AB",
       "U+118CB", "U+118AC", "U+118CC", "U+118AD", "U+118CD", "U+118AE",
       "U+118CE", "U+118AF", "U+118CF", "U+118B0", "U+118D0", "U+118B1",
       "U+118D1", "U+118B2", "U+118D2", "U+118B3", "U+118D3", "U+118B4",
       "U+118D4", "U+118B5", "U+118D5", "U+118B6", "U+118D6", "U+118B7",
       "U+118D7", "U+118B8", "U+118D8", "U+118B9", "U+118D9", "U+118BA",
       "U+118DA", "U+118BB", "U+118DB", "U+118BC", "U+118DC", "U+118BD",
       "U+118DD", "U+118BE", "U+118DE", "U+118BF", "U+118DF", "U+16E40",
       "U+16E60", "U+16E41", "U+16E61", "U+16E42", "U+16E62", "U+16E43",
       "U+16E63", "U+16E44", "U+16E64", "U+16E45", "U+16E65", "U+16E46",
       "U+16E66", "U+16E47", "U+16E67", "U+16E48", "U+16E68", "U+16E49",
       "U+16E69", "U+16E4A", "U+16E6A", "U+16E4B", "U+16E6B", "U+16E4C",
       "U+16E6C", "U+16E4D", "U+16E6D", "U+16E4E", "U+16E6E", "U+16E4F",
       "U+16E6F", "U+16E50", "U+16E70", "U+16E51", "U+16E71", "U+16E52",
       "U+16E72", "U+16E53", "U+16E73", "U+16E54", "U+16E74", "U+16E55",
       "U+16E75", "U+16E56", "U+16E76", "U+16E57", "U+16E77", "U+16E58",
       "U+16E78", "U+16E59", "U+16E79", "U+16E5A", "U+16E7A", "U+16E5B",
       "U+16E7B", "U+16E5C", "U+16E7C", "U+16E5D", "U+16E7D", "U+16E5E",
       "U+16E7E", "U+16E5F", "U+16E7F", "U+1E900", "U+1E922", "U+1E901",
       "U+1E923", "U+1E902", "U+1E924", "U+1E903", "U+1E925", "U+1E904",
       "U+1E926", "U+1E905", "U+1E927", "U+1E906", "U+1E928", "U+1E907",
       "U+1E929", "U+1E908", "U+1E92A", "U+1E909", "U+1E92B", "U+1E90A",
       "U+1E92C", "U+1E90B", "U+1E92D", "U+1E90C", "U+1E92E", "U+1E90D",
       "U+1E92F", "U+1E90E", "U+1E930", "U+1E90F", "U+1E931", "U+1E910",
       "U+1E932", "U+1E911", "U+1E933", "U+1E912", "U+1E934", "U+1E913",
       "U+1E935", "U+1E914", "U+1E936", "U+1E915", "U+1E937", "U+1E916",
       "U+1E938", "U+1E917", "U+1E939", "U+1E918", "U+1E93A", "U+1E919",
       "U+1E93B", "U+1E91A", "U+1E93C", "U+1E91B", "U+1E93D", "U+1E91C",
       "U+1E93E", "U+1E91D", "U+1E93F", "U+1E91E", "U+1E940", "U+1E91F",
       "U+1E941", "U+1E920", "U+1E942", "U+1E921", "U+1E943" >>

NonAsciiUpper == { LowerPairs[2 * i - 1] : i \in 1..(Len(LowerPairs) \div 2) }

NonAsciiLower ==
    [c \in NonAsciiUpper |->
        LowerPairs[2 * (CHOOSE i \in 1..(Len(LowerPairs) \div 2) :
                            LowerPairs[2 * i - 1] = c)]]

\* The characters str.lower() changes
Cased == UpperSet \cup NonAsciiUpper \cup {"U+0130", "U+03A3"}

\* str.lower() on one character.  U+0130 has a lower case of two characters.
\* U+03A3 lowercases by its place in the word (final sigma), which takes
\* the cased and case-ignorable properties of its neighbours: text that
\* holds it is outside the model and has no value here.
LowerChar(c) ==
    IF c \notin Cased
    THEN <<c>>
    ELSE CASE c \in UpperSet -> <<ToLower[c]>>
           [] c = "U+0130" -> <<"i", "U+0307">>
           [] c \in NonAsciiUpper -> <<NonAsciiLower[c]>>

RECURSIVE Lower(_)
\* str.lower()
Lower(s) == IF s = <<>> THEN <<>> ELSE LowerChar(Head(s)) \o Lower(Tail(s))

\* re.IGNORECASE: the characters that match a letter of a pattern besides
\* its two ASCII cases
other_cases(p) ==
    CASE p = "i" -> {"U+0130", "U+0131"}
      [] p = "k" -> {"U+212A"}
      [] p = "s" -> {"U+017F"}
      [] OTHER -> {}

\* Whether the text s matches the literal pattern under re.IGNORECASE; the
\* pattern holds ASCII letters and characters that have no case
matches_ignorecase(s, pattern) ==
    /\ Len(s) = Len(pattern)
    /\ \A i \in 1..Len(s) :
          \/ AsciiLowerChar(s[i]) = AsciiLowerChar(pattern[i])
          \/ s[i] \in other_cases(AsciiLowerChar(pattern[i]))

RECURSIVE lstrip_in(_, _)
lstrip_in(s, space) ==
    IF s # <<>> /\ Head(s) \in space THEN lstrip_in(Tail(s), space) ELSE s

RECURSIVE rstrip_in(_, _)
rstrip_in(s, space) ==
    IF s # <<>> /\ s[Len(s)] \in space
    THEN rstrip_in(SubSeq(s, 1, Len(s) - 1), space)
    ELSE s

lstrip(s) == lstrip_in(s, Whitespace)

rstrip(s) == rstrip_in(s, Whitespace)

\* str.strip
strip(s) == rstrip(lstrip(s))

DigitSet ==
    UNION { { DecimalDigits[b][i] : i \in 1..10 } : b \in 1..Len(DecimalDigits) }

IsDigit(c) == c \in DigitSet

DigitValue ==
    [c \in DigitSet |->
        (CHOOSE i \in 1..10 : \E b \in 1..Len(DecimalDigits) : DecimalDigits[b][i] = c) - 1]

DigitVal(c) == DigitValue[c]

RECURSIVE IntVal(_)
\* int() of a string of digits; the empty string counts 0
IntVal(s) ==
    IF s = <<>> THEN 0 ELSE 10 * IntVal(SubSeq(s, 1, Len(s) - 1)) + DigitVal(s[Len(s)])

\* s[:n]
Prefix(s, n) == SubSeq(s, 1, IF n < Len(s) THEN n ELSE Len(s))

\* `k in s` for strings
Contains(s, k) ==
    \E i \in 1..(Len(s) - Len(k) + 1) : SubSeq(s, i, i + Len(k) - 1) = k

\* s.rfind(c), 1-based, 0 when absent
RFind(s, c) ==
    IF \E i \in 1..Len(s) : s[i] = c
    THEN CHOOSE i \in 1..Len(s) : s[i] = c /\ \A j \in (i+1)..Len(s) : s[j] # c
    ELSE 0

\* os.path.splitext(p)[1]: the suffix from the last dot, provided the dot
\* comes after the last separator and some earlier character of the file
\* name is not a dot
splitext_ext(p) ==
    LET sepIndex == RFind(p, "/")
        dotIndex == RFind(p, ".")
    IN  IF dotIndex > sepIndex
           /\ \E k \in (sepIndex + 1)..(dotIndex - 1) : p[k] # "."
        THEN SubSeq(p, dotIndex, Len(p))
        ELSE <<>>

----------------------------------------------------------------------------
(* Numbers: decimals and the floating point of Python *)

\* A decimal number m * 10^e, kept normal (m = 0 and e = 0, or m not
\* divisible by 10)
Dec(m, e) == [m |-> m, e |-> e]

RECURSIVE Normal(_, _)
Normal(m, e) ==
    IF m = 0 THEN Dec(0, 0)
    ELSE IF m % 10 = 0 THEN Normal(m \div 10, e + 1) ELSE Dec(m, e)

Zero == Dec(0, 0)
One == Dec(1, 0)
Tenths(n) == Normal(n, 0 - 1)

RECURSIVE AtLeastPow10(_, _)
\* x >= 10^k for x >= 0, k >= 0
AtLeastPow10(x, k) == IF k = 0 THEN x >= 1 ELSE AtLeastPow10(x \div 10, k - 1)

\* v > 1.0 for a normal decimal
GreaterThanOne(v) ==
    /\ v.m > 0
    /\ IF v.e >= 0 THEN ~(v.m = 1 /\ v.e = 0) ELSE AtLeastPow10(v.m, 0 - v.e)

Min(a, b) == IF a < b THEN a ELSE b
Max(a, b) == IF a > b THEN a ELSE b

\* A natural number of any size: its digits to the base 2^15, the lowest
\* first and the highest not 0
LimbBits == 15
LimbBase == 2^LimbBits

RECURSIVE BigFromNat(_)
BigFromNat(n) == IF n = 0 THEN <<>> ELSE <<n % LimbBase>> \o BigFromNat(n \div LimbBase)

\* x * LimbBase^n
ShiftLimbs(x, n) == IF x = <<>> THEN <<>> ELSE [i \in 1..n |-> 0] \o x

\* x without the zeros at its high end
BigTrim(x) ==
    LET nonzero == { i \in 1..Len(x) : x[i] # 0 }
    IN  IF nonzero = {} THEN <<>>
        ELSE SubSeq(x, 1, CHOOSE i \in nonzero : \A j \in nonzero : j <= i)

\* The digits of x and y added from digit lo to digit hi with the carry
\* that comes in, and the carry that goes out: the upper half after the
\* lower one
RECURSIVE AddDigits(_, _, _, _, _)
AddDigits(x, y, lo, hi, carry) ==
    IF lo > hi
    THEN [digits |-> <<>>, carry |-> carry]
    ELSE IF lo = hi
    THEN LET s == (IF lo <= Len(x) THEN x[lo] ELSE 0)
                  + (IF lo <= Len(y) THEN y[lo] ELSE 0) + carry
         IN  [digits |-> <<s % LimbBase>>, carry |-> s \div LimbBase]
    ELSE LET mid == (lo + hi) \div 2
             low == AddDigits(x, y, lo, mid, carry)
             high == AddDigits(x, y, mid + 1, hi, low.carry)
         IN  [digits |-> low.digits \o high.digits, carry |-> high.carry]

\* x + y + carry
BigAdd(x, y, carry) ==
    LET s == AddDigits(x, y, 1, Max(Len(x), Len(y)), carry)
    IN  BigTrim(s.digits \o <<s.carry>>)

RECURSIVE MulDigits(_, _, _, _, _)
MulDigits(x, k, lo, hi, carry) ==
    IF lo > hi
    THEN [digits |-> <<>>, carry |-> carry]
    ELSE IF lo = hi
    THEN LET p == x[lo] * k + carry
         IN  [digits |-> <<p % LimbBase>>, carry |-> p \div LimbBase]
    ELSE LET mid == (lo + hi) \div 2
             low == MulDigits(x, k, lo, mid, carry)
             high == MulDigits(x, k, mid + 1, hi, low.carry)
         IN  [digits |-> low.digits \o high.digits, carry |-> high.carry]

\* x * k + carry, for 0 < k < LimbBase
BigMulSmall(x, k, carry) ==
    LET p == MulDigits(x, k, 1, Len(x), carry)
    IN  BigTrim(p.digits \o <<p.carry % LimbBase, p.carry \div LimbBase>>)

RECURSIVE BigMul(_, _)
BigMul(x, y) ==
    IF x = <<>> \/ y = <<>>
    THEN <<>>
    ELSE IF Head(y) = 0
    THEN ShiftLimbs(BigMul(x, Tail(y)), 1)
    ELSE BigAdd(BigMulSmall(x, Head(y), 0), ShiftLimbs(BigMul(x, Tail(y)), 1), 0)

\* The digits of x from digit hi down to digit lo divided by k with the
\* remainder r that comes in, and the remainder that goes out: the lower
\* half after the upper one
RECURSIVE DivDigits(_, _, _, _, _)
DivDigits(x, k, lo, hi, r) ==
    IF lo > hi
    THEN [digits |-> <<>>, r |-> r]
    ELSE IF lo = hi
    THEN LET cur == r * LimbBase + x[lo]
         IN  [digits |-> <<cur \div k>>, r |-> cur % k]
    ELSE LET mid == (lo + hi) \div 2
             high == DivDigits(x, k, mid + 1, hi, r)
             low == DivDigits(x, k, lo, mid, high.r)
         IN  \* the test has the upper half worked out before the lower
             \* one asks for its remainder
             IF high.digits = <<>>
             THEN low
             ELSE [digits |-> low.digits \o high.digits, r |-> low.r]

\* The quotient q and the remainder r of x by k, for 0 < k < LimbBase
BigDivSmall(x, k) ==
    LET d == DivDigits(x, k, 1, Len(x), 0)
    IN  [q |-> BigTrim(d.digits), r |-> d.r]

RECURSIVE BigGeqFrom(_, _, _)
BigGeqFrom(x, y, i) ==
    IF i = 0 THEN TRUE
    ELSE IF x[i] # y[i] THEN x[i] > y[i]
    ELSE BigGeqFrom(x, y, i - 1)

\* x >= y
BigGeq(x, y) == IF Len(x) # Len(y) THEN Len(x) > Len(y) ELSE BigGeqFrom(x, y, Len(x))

RECURSIVE NatBits(_)
NatBits(n) == IF n = 0 THEN 0 ELSE 1 + NatBits(n \div 2)

\* The number of binary digits of x
BigBits(x) == IF x = <<>> THEN 0 ELSE LimbBits * (Len(x) - 1) + NatBits(x[Len(x)])

\* x * 2^n
BigShl(x, n) == ShiftLimbs(BigMulSmall(x, 2^(n % LimbBits), 0), n \div LimbBits)

\* x \div 2^n
BigShr(x, n) ==
    IF n \div LimbBits >= Len(x)
    THEN <<>>
    ELSE BigDivSmall(SubSeq(x, n \div LimbBits + 1, Len(x)), 2^(n % LimbBits)).q

\* x % 2^n = 0
BigLowZero(x, n) ==
    /\ \A i \in 1..Min(Len(x), n \div LimbBits) : x[i] = 0
    /\ Len(x) > n \div LimbBits => x[n \div LimbBits + 1] % 2^(n % LimbBits) = 0

BigOdd(x) == x # <<>> /\ x[1] % 2 = 1

\* A Python float that is not negative, an IEEE 754 double m * 2^e: m has
\* Precision binary digits, or fewer with e = MinExp (subnormal), or is 0
\* with e = 0.  Overflow to inf is left out: no score comes near it.
Precision == 53
MinExp == 0 - 1074

Double(m, e) == [m |-> m, e |-> e]

DZero == Double(<<>>, 0)

\* The double nearest to M * 2^e, ties to the even one
RoundDouble(M, e) ==
    IF M = <<>>
    THEN DZero
    ELSE LET n == BigBits(M)
             shift == Max(n - Precision, MinExp - e)
         IN  IF shift <= 0
             THEN LET t == Min(Precision - n, e - MinExp)
                  IN  Double(BigShl(M, t), e - t)
             ELSE LET q2 == BigShr(M, shift - 1)
                      sticky == ~BigLowZero(M, shift - 1)
                      q == BigShr(q2, 1)
                      round_up == BigOdd(q2) /\ (sticky \/ BigOdd(q))
                      r == IF round_up THEN BigAdd(q, <<1>>, 0) ELSE q
                  IN  IF r = <<>> THEN DZero
                      ELSE IF BigBits(r) > Precision
                      THEN Double(BigShr(r, 1), e + shift + 1)
                      ELSE Double(r, e + shift)

RECURSIVE BigMulPow10(_, _)
\* x * 10^k, four decimal places at a time: half of the places, then the
\* other half
BigMulPow10(x, k) ==
    IF x = <<>> THEN x
    ELSE IF k <= 4 THEN BigMulSmall(x, 10^k, 0)
    ELSE LET half == 4 * ((k \div 4 + 1) \div 2)
             first == BigMulPow10(x, half)
         IN  IF first = <<>> THEN first ELSE BigMulPow10(first, k - half)

RECURSIVE BigDivPow10(_, _, _)
\* x \div 10^k, four decimal places at a time (half of the places, then the
\* other half), and whether the division is exact (and was so far)
BigDivPow10(x, k, exact) ==
    IF k <= 4
    THEN LET d == BigDivSmall(x, 10^k)
         IN  [q |-> d.q, exact |-> exact /\ d.r = 0]
    ELSE LET half == 4 * ((k \div 4 + 1) \div 2)
             first == BigDivPow10(x, half, exact)
         IN  IF first.exact
             THEN BigDivPow10(first.q, k - half, TRUE)
             ELSE BigDivPow10(first.q, k - half, FALSE)

\* 2 * q, and 1 more if the quotient q was cut: rounding it rounds the
\* quotient itself
WithSticky(q, exact) == BigAdd(BigShl(q, 1), IF exact THEN <<>> ELSE <<1>>, 0)

\* float() of the decimal d >= 0, which is how Python reads a literal and a
\* text: the nearest double
FromDecimal(d) ==
    IF d.e >= 0
    THEN RoundDouble(BigMulPow10(BigFromNat(d.m), d.e), 0)
    ELSE LET s == 64 + 4 * (0 - d.e)
             d10 == BigDivPow10(BigShl(BigFromNat(d.m), s), 0 - d.e, TRUE)
         IN  RoundDouble(WithSticky(d10.q, d10.exact), 0 - (s + 1))

\* a * b
DMul(a, b) == RoundDouble(BigMul(a.m, b.m), a.e + b.e)

\* a / float(k), for 0 < k < LimbBase
DDivNat(a, k) ==
    LET d == BigDivSmall(BigShl(a.m, 64), k)
    IN  RoundDouble(WithSticky(d.q, d.r = 0), a.e - 65)

\* a + b
DAdd(a, b) ==
    IF a.m = <<>> THEN b
    ELSE IF b.m = <<>> THEN a
    ELSE LET e == Min(a.e, b.e)
         IN  RoundDouble(BigAdd(BigShl(a.m, a.e - e), BigShl(b.m, b.e - e), 0), e)

\* a >= b
DGeq(a, b) ==
    IF b.m = <<>> THEN TRUE
    ELSE IF a.m = <<>> THEN FALSE
    ELSE IF a.e # b.e THEN a.e > b.e
    ELSE BigGeq(a.m, b.m)

\* round(a * 10^k), a whole number below 2^30
DScaled(a, k) ==
    LET x == BigMulPow10(a.m, k)
        r == IF a.e >= 0
             THEN BigShl(x, a.e)
             ELSE BigShr(BigAdd(BigShl(x, 1), BigShl(<<1>>, 0 - a.e), 0), 1 - a.e)
    IN  (IF Len(r) >= 1 THEN r[1] ELSE 0) + (IF Len(r) >= 2 THEN LimbBase * r[2] ELSE 0)

\* a * 100 rounded to the nearest whole number, ties to the even one, for
\* a below 2^30 / 100: the digits "%.2f" writes
Hundredths(a) ==
    LET x == BigMulPow10(a.m, 2)
        n == 0 - a.e
        q == IF a.e >= 0 THEN BigShl(x, a.e) ELSE BigShr(x, n)
        twice == BigShl(x, 1)
        half == BigAdd(BigShl(q, n + 1), BigShl(<<1>>, n), 0)
        round_up == /\ a.e < 0
                    /\ IF twice = half THEN BigOdd(q) ELSE BigGeq(twice, half)
    IN  (IF Len(q) >= 1 THEN q[1] ELSE 0) + (IF Len(q) >= 2 THEN LimbBase * q[2] ELSE 0)
        + (IF round_up THEN 1 ELSE 0)

\* f"{a:.2f}" of a double a >= 0, as the pieces of its text
format_2f(a) ==
    LET h == Hundredths(a)
    IN  <<ToString(h \div 100), ".", ToString((h % 100) \div 10), ToString(h % 10)>>

----------------------------------------------------------------------------
(* backend/app/api/documents.py: file types *)

supported_extensions ==
    { <<".","p","d","f">>, <<".","d","o","c">>, <<".","d","o","c","x">>,
      <<".","t","e","x">>, <<".","h","t","m","l">>, <<".","t","x","t">> }

_is_supported_file_type(filename) ==
    splitext_ext(Lower(filename)) \in supported_extensions

_get_document_type(filename) ==
    LET ext == splitext_ext(Lower(filename))
    IN  CASE ext = <<".","p","d","f">> -> "pdf"
          [] ext = <<".","d","o","c">> -> "word"
          [] ext = <<".","d","o","c","x">> -> "word"
          [] ext = <<".","t","e","x">> -> "latex"
          [] ext = <<".","h","t","m","l">> -> "html"
          [] OTHER -> "text"

\* File names a client may send
Filenames ==
    { <<"a",".","p","d","f">>,
      <<"B",".","D","O","C","X">>,
      <<"n",".","t","x","t">>,
      <<"a",".","e","x","e">>,
      <<".","t","x","t">> }

Batches == UNION { [1..n -> Filenames] : n \in 1..MaxBatch }

\* s.endswith(suffix)
EndsWith(s, suffix) ==
    /\ Len(suffix) <= Len(s)
    /\ SubSeq(s, Len(s) - Len(suffix) + 1, Len(s)) = suffix

_get_document_type_from_url(url) ==
    IF EndsWith(Lower(url), <<".","p","d","f">>)
    THEN "pdf"
    ELSE IF \/ EndsWith(Lower(url), <<".","d","o","c">>)
            \/ EndsWith(Lower(url), <<".","d","o","c","x">>)
         THEN "word"
         ELSE "html"

\* URLs a client may send (the part after the host)
Urls ==
    { <<"/","p","a","p","e","r">>,
      <<"/","a",".","P","D","F">>,
      <<"/","b",".","d","o","c","x">> }

\* What the environment makes of a download: the bytes arrive, or the
\* request raises or answers with a status other than 200
Downloads == {"ok", "failed"}

----------------------------------------------------------------------------
(* backend/app/models/document.py *)

DocumentStatus ==
    {"uploaded", "parsing", "parsed", "extracting", "extracted", "indexing",
     "completed", "failed"}

\* Document(id, filename, file_path, file_size, document_type, status=UPLOADED)
Document(dtype) ==
    [document_type |-> dtype, status |-> "uploaded", metadata |-> "none",
     processing_errors |-> <<>>]

NullDoc == [document_type |-> "text", status |-> "uploaded", metadata |-> "none",
            processing_errors |-> <<>>]

----------------------------------------------------------------------------
(* backend/app/services/storage/document_storage.py *)

\* get_document: the record, or None (here: absence from the domain)
DocExists(store, id) == id \in DOMAIN store

\* save_document: (over)writes <processed_dir>/<id>.json
save_document(store, id, document) ==
    [x \in DOMAIN store \cup {id} |-> IF x = id THEN document ELSE store[x]]

\* Mutant of delete_document: removes every record of the directory
delete_document_all(store, id) ==
    IF id \in DOMAIN store THEN [x \in {} |-> store[x]] ELSE store

\* delete_document: removes the file if present
delete_document(store, id) == [x \in DOMAIN store \ {id} |-> store[x]]

\* update_document_status: [ok, store]; False and no write when the record
\* is missing
update_document_status(store, id, status) ==
    IF DocExists(store, id)
    THEN [ok |-> TRUE,
          store |-> save_document(store, id, [store[id] EXCEPT !.status = status])]
    ELSE [ok |-> FALSE, store |-> store]

----------------------------------------------------------------------------
(* backend/app/services/parser/document_parser.py                          *)
(* The Chinese message texts of the source are written in English here.    *)

\* What the environment makes of a parse: the file parses, opening/decoding
\* it raises, or (scanned PDF) the OCR of one page raises
ParseFaults == {"none", "raises", "ocr_page"}

ErrorPrefix(dtype) ==
    CASE dtype = "pdf" -> "PDF parse failed: "
      [] dtype = "word" -> "Word parse failed: "
      [] dtype = "latex" -> "LaTeX parse failed: "
      [] dtype = "html" -> "HTML parse failed: "
      [] OTHER -> "text parse failed: "

\* _parse_pdf/_parse_word/_parse_latex/_parse_html/_parse_text: each wraps
\* its whole body in try/except, appends its message and RETURNS the document
\* (status untouched), so nothing propagates to the caller.
\* The result is [raised, doc].
parse_by_type(document, fault) ==
    CASE fault = "none" ->
           [raised |-> FALSE, doc |-> [document EXCEPT !.metadata = "meta"]]
      [] fault = "ocr_page" /\ document.document_type = "pdf" ->
           [raised |-> FALSE,
            doc |-> [document EXCEPT
                       !.metadata = "meta",
                       !.processing_errors =
                           Append(@, <<"OCR failed (page 1): ", "e">>)]]
      [] OTHER ->
           [raised |-> FALSE,
            doc |-> [document EXCEPT
                       !.processing_errors =
                           Append(@, <<ErrorPrefix(document.document_type), "e">>)]]

\* parse_document: dispatch by type; its own except clause (status FAILED)
\* only runs for an exception that escapes the per-type parser
parse_document(document, fault) ==
    LET r == parse_by_type(document, fault)
    IN  IF r.raised
        THEN [raised |-> FALSE,
              doc |-> [document EXCEPT
                         !.status = "failed",
                         !.processing_errors = Append(@, <<"parse failed: ", "e">>)]]
        ELSE r

----------------------------------------------------------------------------
(* Responses *)

\* What the step just taken returned: the operation, the id it was about,
\* the HTTP status (0 for a background task) and operation-specific details
Resp(op, id, code, info) == [op |-> op, id |-> id, code |-> code, info |-> info]

NoResp == Resp("none", 0, 0, <<>>)

\* The event loop is free: no background task is in the middle of its run
Idle == bg.pc = "idle"

BgIdle == [pc |-> "idle", id |-> 0, doc |-> NullDoc, raised |-> FALSE, fault |-> "none"]

UpIdle == [pc |-> "idle", files |-> <<>>, idx |-> 0, uploaded_docs |-> <<>>,
           doc_id |-> 0, url |-> <<>>]

\* The ids the upload request of slot r may still draw
UploadPending(r) ==
    CASE r.pc = "loop" -> Len(r.files) - r.idx + 1
      [] r.pc = "read" -> Len(r.files) - r.idx
      [] OTHER -> 0

RECURSIVE SumPending(_, _)
SumPending(u, slots) ==
    IF slots = {} THEN 0
    ELSE LET c == CHOOSE c \in slots : TRUE
         IN  UploadPending(u[c]) + SumPending(u, slots \ {c})

\* Bound of the model: the ids drawn, with those the requests in flight
\* may draw and n more, stay within MaxUploads
RoomForUploads(n) == nextDoc - 1 + SumPending(up, Clients) + n <= MaxUploads

----------------------------------------------------------------------------
(* backend/app/api/documents.py: upload_documents *)

\* background_tasks of a request are started once its response was sent
schedule(t, ids) ==
    [d \in DOMAIN t |-> t[d] + Cardinality({ i \in 1..Len(ids) : ids[i] = d })]

\* The request of client u arrives: the batch-size check
UploadBegin(u, fs) ==
    /\ Idle
    /\ up[u].pc = "idle"
    /\ RoomForUploads(Len(fs))
    /\ IF Len(fs) > max_batch_size
       THEN /\ resp' = Resp("upload", 0, 400, [files |-> fs, uploaded_docs |-> <<>>])
            /\ up' = up
       ELSE /\ resp' = NoResp
            /\ up' = [up EXCEPT ![u] = [UpIdle EXCEPT !.pc = "loop", !.files = fs,
                                                      !.idx = 1]]
    /\ UNCHANGED <<docs, files, tasks, nextDoc, bg, convVars, legacyVars, qaVars>>

\* One iteration of `for file in files`, up to the suspension inside
\* _save_uploaded_file: type check, draw the id, open <id><ext> for writing,
\* await file.read().  A 400 raised in the loop ends the request: its
\* background tasks are never started.  Another request may run while this
\* one waits for its bytes.
UploadFile(u) ==
    /\ Idle
    /\ up[u].pc = "loop"
    /\ LET file == up[u].files[up[u].idx]
           doc_id == nextDoc
       IN  IF ~_is_supported_file_type(file)
           THEN /\ resp' = Resp("upload", 0, 400,
                                [files |-> up[u].files,
                                 uploaded_docs |-> up[u].uploaded_docs])
                /\ up' = [up EXCEPT ![u] = UpIdle]
                /\ UNCHANGED <<files, nextDoc>>
           ELSE /\ files' = files \cup {doc_id}
                /\ nextDoc' = nextDoc + 1
                /\ resp' = NoResp
                /\ up' = [up EXCEPT ![u].pc = "read", ![u].doc_id = doc_id]
    /\ UNCHANGED <<docs, tasks, bg, convVars, legacyVars, qaVars>>

\* The rest of the iteration, once the bytes were read: write them, create
\* and save the Document, add the background task; after the last file the
\* handler returns and its background tasks are scheduled.
UploadSave(u) ==
    /\ Idle
    /\ up[u].pc = "read"
    /\ LET file == up[u].files[up[u].idx]
           uploaded == Append(up[u].uploaded_docs, up[u].doc_id)
       IN  /\ docs' = save_document(docs, up[u].doc_id,
                                    Document(_get_document_type(file)))
           /\ IF up[u].idx = Len(up[u].files)
              THEN /\ tasks' = schedule(tasks, uploaded)
                   /\ resp' = Resp("upload", 0, 200,
                                   [files |-> up[u].files, uploaded_docs |-> uploaded])
                   /\ up' = [up EXCEPT ![u] = UpIdle]
              ELSE /\ tasks' = tasks
                   /\ resp' = NoResp
                   /\ up' = [up EXCEPT ![u].pc = "loop", ![u].idx = @ + 1,
                                       ![u].uploaded_docs = uploaded,
                                       ![u].doc_id = 0]
    /\ UNCHANGED <<files, nextDoc, bg, convVars, legacyVars, qaVars>>

----------------------------------------------------------------------------
(* backend/app/api/documents.py: upload_from_url *)

\* The request of client u arrives: the id is drawn and the download
\* awaited
UploadFromUrl(u, url) ==
    /\ Idle
    /\ up[u].pc = "idle"
    /\ RoomForUploads(1)
    /\ nextDoc' = nextDoc + 1
    /\ up' = [up EXCEPT ![u] = [UpIdle EXCEPT !.pc = "download",
                                              !.doc_id = nextDoc, !.url = url]]
    /\ resp' = NoResp
    /\ UNCHANGED <<docs, files, tasks, bg, convVars, legacyVars, qaVars>>

\* The download ends inside _download_from_url: any exception becomes a 400
\* and nothing is stored; otherwise the bytes are written to <id><ext> and
\* the two `async with` blocks are left, which awaits the release of the
\* response and the close of the session
UrlDownloaded(u, download) ==
    /\ Idle
    /\ up[u].pc = "download"
    /\ IF download = "failed"
       THEN /\ resp' = Resp("upload_url", up[u].doc_id, 400, [url |-> up[u].url])
            /\ up' = [up EXCEPT ![u] = UpIdle]
            /\ files' = files
       ELSE /\ files' = files \cup {up[u].doc_id}
            /\ up' = [up EXCEPT ![u].pc = "close"]
            /\ resp' = NoResp
    /\ UNCHANGED <<docs, tasks, nextDoc, bg, convVars, legacyVars, qaVars>>

\* The session is closed and _download_from_url returns: the Document is
\* created and saved and the handler returns with its background task
UrlSave(u) ==
    /\ Idle
    /\ up[u].pc = "close"
    /\ docs' = save_document(docs, up[u].doc_id,
                   Document(_get_document_type_from_url(up[u].url)))
    /\ tasks' = schedule(tasks, <<up[u].doc_id>>)
    /\ resp' = Resp("upload_url", up[u].doc_id, 200, [url |-> up[u].url])
    /\ up' = [up EXCEPT ![u] = UpIdle]
    /\ UNCHANGED <<files, nextDoc, bg, convVars, legacyVars, qaVars>>

----------------------------------------------------------------------------
(* backend/app/api/documents.py: delete_document, reprocess_document *)

\* The documents deleted so far: the upload file is stored, the record is
\* gone, and the id is not the one an upload is about to save
DeletedIds ==
    { d \in files :
        /\ ~DocExists(docs, d)
        /\ ~\E u \in Clients : up[u].pc \in {"read", "close"} /\ up[u].doc_id = d }

Deleted == Cardinality(DeletedIds)

DeleteDocument(d) ==
    /\ Idle
    /\ IF DocExists(docs, d)
       THEN /\ Deleted < MaxDeletes
            /\ docs' = delete_document(docs, d)
            /\ resp' = Resp("delete", d, 200, <<>>)
       ELSE /\ docs' = docs
            /\ resp' = Resp("delete", d, 404, <<>>)
    /\ UNCHANGED <<files, tasks, nextDoc, up, bg, convVars, legacyVars, qaVars>>

\* Mutant of reprocess_reset: the old errors are kept
reprocess_reset_keeps_errors(document) == [document EXCEPT !.status = "uploaded"]

\* document.status = UPLOADED; document.processing_errors = []
reprocess_reset(document) ==
    [document EXCEPT !.status = "uploaded", !.processing_errors = <<>>]

\* info: the record as it was before the call
ReprocessDocument(d) ==
    /\ Idle
    /\ tasks[d] < MaxTasks
    /\ IF DocExists(docs, d)
       THEN /\ docs' = save_document(docs, d, reprocess_reset(docs[d]))
            /\ tasks' = schedule(tasks, <<d>>)
            /\ resp' = Resp("reprocess", d, 200, docs[d])
       ELSE /\ docs' = docs
            /\ tasks' = tasks
            /\ resp' = Resp("reprocess", d, 404, <<>>)
    /\ UNCHANGED <<files, nextDoc, up, bg, convVars, legacyVars, qaVars>>

----------------------------------------------------------------------------
(* backend/app/api/documents.py: process_document (background task) *)

\* Mutant of ProcStart: the task does not return when the record is missing
ProcStart_unchecked(d) ==
    /\ Idle
    /\ tasks[d] > 0
    /\ tasks' = [tasks EXCEPT ![d] = @ - 1]
    /\ LET document == [(IF DocExists(docs, d) THEN docs[d] ELSE NullDoc)
                           EXCEPT !.status = "parsing"]
       IN  /\ docs' = save_document(docs, d, document)
           /\ bg' = [BgIdle EXCEPT !.pc = "parse", !.id = d, !.doc = document]
           /\ resp' = NoResp
    /\ UNCHANGED <<files, nextDoc, up, convVars, legacyVars, qaVars>>

\* The task starts: load the document (return if missing), persist PARSING
ProcStart(d) ==
    /\ Idle
    /\ tasks[d] > 0
    /\ tasks' = [tasks EXCEPT ![d] = @ - 1]
    /\ IF DocExists(docs, d)
       THEN LET document == [docs[d] EXCEPT !.status = "parsing"]
            IN  /\ docs' = save_document(docs, d, document)
                /\ bg' = [BgIdle EXCEPT !.pc = "parse", !.id = d, !.doc = document]
                /\ resp' = NoResp
       ELSE /\ docs' = docs
            /\ bg' = bg
            /\ resp' = Resp("process", d, 0, "missing")
    /\ UNCHANGED <<files, nextDoc, up, convVars, legacyVars, qaVars>>

\* parsed_doc = await parser.parse_document(document)
ProcParse(fault) ==
    /\ bg.pc = "parse"
    /\ fault = "ocr_page" => bg.doc.document_type = "pdf"
    /\ LET r == parse_document(bg.doc, fault)
       IN  bg' = [bg EXCEPT !.pc = "save", !.doc = r.doc, !.raised = r.raised,
                            !.fault = fault]
    /\ resp' = NoResp
    /\ UNCHANGED <<docs, files, tasks, nextDoc, up, convVars, legacyVars, qaVars>>

\* The record process_document persists last: the parsed document with
\* status PARSED, or, in its except clause, the re-fetched record (if any)
\* with status FAILED and the exception text appended
process_outcome(store, id, parsed_doc, raised) ==
    IF ~raised
    THEN save_document(store, id, [parsed_doc EXCEPT !.status = "parsed"])
    ELSE IF DocExists(store, id)
         THEN save_document(store, id,
                  [store[id] EXCEPT !.status = "failed",
                                    !.processing_errors = Append(@, <<"", "e">>)])
         ELSE store

ProcFinish ==
    /\ bg.pc = "save"
    /\ docs' = process_outcome(docs, bg.id, bg.doc, bg.raised)
    /\ resp' = Resp("process", bg.id, 0, bg.fault)
    /\ bg' = BgIdle
    /\ UNCHANGED <<files, tasks, nextDoc, up, convVars, legacyVars, qaVars>>

----------------------------------------------------------------------------
(* Questions *)

\* Questions a client may ask.  A request, an entry and a history turn hold
\* a question by name; QuestionText is its text: 3, 50 and 51 characters,
\* and a text of three lines whose second line reads like a heading of the
\* markdown export (the fragment "## Question " counts as one character).
Pad(s, n) == s \o [i \in 1..(n - Len(s)) |-> "x"]

Questions == {"q3", "q50", "q51", "qmd"}

QuestionText ==
    [q \in Questions |->
        CASE q = "q3" -> <<"W","h","y">>
          [] q = "q50" -> Pad(<<"c","o","m","p","a","r","e">>, TitleLen)
          [] q = "qmd" -> <<"x", "\n", "## Question ", "1", "\n", "y">>
          [] OTHER -> Pad(<<"q">>, TitleLen + 1)]

RECURSIVE Lines(_)
\* The non-empty lines of a text
Lines(text) ==
    IF text = <<>>
    THEN <<>>
    ELSE LET n == IF \E i \in 1..Len(text) : text[i] = "\n"
                  THEN (CHOOSE i \in 1..Len(text) :
                          /\ text[i] = "\n"
                          /\ \A j \in 1..(i - 1) : text[j] # "\n") - 1
                  ELSE Len(text)
             rest == Lines(SubSeq(text, n + 2, Len(text)))
         IN  IF n = 0 THEN rest ELSE <<SubSeq(text, 1, n)>> \o rest

----------------------------------------------------------------------------
(* backend/app/models/conversation.py *)

Ellipsis == <<".", ".", ".">>

\* Conversation._generate_title
_generate_title(first_question) ==
    IF Len(first_question) > TitleLen
    THEN Prefix(first_question, TitleLen) \o Ellipsis
    ELSE Prefix(first_question, TitleLen)

\* Mutant of add_entry: the counter is not incremented
add_entry_uncounted(conversation, entry) ==
    [conversation EXCEPT !.entries = Append(@, entry)]

\* Mutant of add_entry: every entry derives the title anew
add_entry_retitles(conversation, entry) ==
    [conversation EXCEPT !.entries = Append(@, entry),
                         !.total_questions = @ + 1,
                         !.title = _generate_title(QuestionText[entry.question])]

\* Mutant of add_entry: the entry is put in front
add_entry_prepends(conversation, entry) ==
    LET c == [conversation EXCEPT !.entries = <<entry>> \o @,
                                  !.total_questions = @ + 1]
    IN  IF c.total_questions = 1
        THEN [c EXCEPT !.title = _generate_title(QuestionText[entry.question])]
        ELSE c

\* Conversation.add_entry: append, count, derive the title on the first entry
add_entry(conversation, entry) ==
    LET c == [conversation EXCEPT !.entries = Append(@, entry),
                                  !.total_questions = @ + 1]
    IN  IF c.total_questions = 1
        THEN [c EXCEPT !.title = _generate_title(QuestionText[entry.question])]
        ELSE c

\* Conversation.to_history_format
to_history_format(conversation) ==
    [i \in 1..Len(conversation.entries) |->
        [question |-> conversation.entries[i].question,
         answer |-> conversation.entries[i].answer]]

----------------------------------------------------------------------------
(* backend/app/services/storage/conversation_storage.py *)

ConvExists(store, id) == id \in DOMAIN store

\* save_conversation: (over)writes <conversations_dir>/<id>.json
save_conversation(store, id, conversation) ==
    [x \in DOMAIN store \cup {id} |-> IF x = id THEN conversation ELSE store[x]]

\* delete_conversation
delete_conversation(store, id) == [x \in DOMAIN store \ {id} |-> store[x]]

\* create_conversation: a new ACTIVE record, not yet persisted
create_conversation(document_id, document_title, first_question) ==
    [document_id |-> document_id,
     document_title |-> document_title,
     title |-> Prefix(QuestionText[first_question], TitleLen)
                 \o (IF Len(QuestionText[first_question]) > TitleLen
                     THEN Ellipsis ELSE <<>>),
     entries |-> <<>>,
     status |-> "active",
     total_questions |-> 0]

\* archive_conversation: load, status = ARCHIVED, save; absent: no change
archive_conversation(store, id) ==
    IF ConvExists(store, id)
    THEN save_conversation(store, id, [store[id] EXCEPT !.status = "archived"])
    ELSE store

add_qa_to_conversation_overwrite(store, id, entry) ==
    IF ConvExists(store, id)
    THEN save_conversation(store, id,
             add_entry([store[id] EXCEPT !.entries = <<>>, !.total_questions = 0],
                       entry))
    ELSE store

\* add_qa_to_conversation: load, add_entry, save; absent: False, no change
add_qa_to_conversation(store, id, entry) ==
    IF ConvExists(store, id)
    THEN save_conversation(store, id, add_entry(store[id], entry))
    ELSE store

\* The lines an f-string "<label>{text}\n\n" adds to the content
Field(label, text) == Lines(<<label>> \o text)

\* A confidence is the rational <<numerator, denominator>>; the float the
\* code holds is the double nearest to it (min(n / 3.0, 1.0), halved exactly
\* for a hedged answer)
confidence_float(c) == DDivNat(FromDecimal(Dec(c[1], 0)), c[2])

\* timedelta.total_seconds() of a processing time kept in microseconds
total_seconds(microseconds) == FromDecimal(Dec(microseconds, 0 - 6))

\* The processing times and the confidences of the model's runs, and their
\* texts, computed once
ProcessingTimes == {0, 15000}
Confidences == { <<0, 1>> } \cup { <<n, d>> : n \in 1..3, d \in {3, 6} }
ProcessingTimeText == [t \in ProcessingTimes |-> format_2f(total_seconds(t))]
ConfidenceText == [c \in Confidences |-> format_2f(confidence_float(c))]

\* f"{entry.processing_time:.2f}"
processing_time_2f(t) ==
    IF t \in ProcessingTimes THEN ProcessingTimeText[t] ELSE format_2f(total_seconds(t))

\* f"{entry.confidence:.2f}"
confidence_2f(c) ==
    IF c \in Confidences THEN ConfidenceText[c] ELSE format_2f(confidence_float(c))

\* The block _export_to_markdown writes for entry number i, as its lines.
\* The labels of the source are written in English here; the answer is
\* one line; the timestamp is opaque.  Confidence and processing time are
\* written with two decimals, and only when they are above 0.
markdown_entry(i, entry) ==
    Field("## Question ", <<ToString(i)>>)
    \o Field("**time**: ", <<"ts">>)
    \o Field("**question**: ", QuestionText[entry.question])
    \o Field("**answer**: ", entry.answer)
    \o (IF entry.confidence[1] > 0
        THEN Field("**confidence**: ", confidence_2f(entry.confidence))
        ELSE <<>>)
    \o (IF entry.processing_time > 0
        THEN Field("**processing time**: ",
                   processing_time_2f(entry.processing_time) \o <<"s">>)
        ELSE <<>>)
    \o << <<"---">> >>

RECURSIVE markdown_entries(_, _)
\* for i, entry in enumerate(conversation.entries, 1)
markdown_entries(entries, i) ==
    IF i > Len(entries)
    THEN <<>>
    ELSE markdown_entry(i, entries[i]) \o markdown_entries(entries, i + 1)

\* _export_to_markdown: {"content", "filename"}, the content as its lines
_export_to_markdown(id, conversation) ==
    [content |->
        Field("# conversation: ", conversation.title)
        \o Field("**document**: ", <<conversation.document_title>>)
        \o Field("**created**: ", <<"ts">>)
        \o Field("**total**: ", <<ToString(conversation.total_questions)>>)
        \o << <<"---">> >>
        \o markdown_entries(conversation.entries, 1),
     filename |-> <<"conversation_", id, ".md">>]

\* export_conversation: None (here <<>>) when absent; the record for "json"
\* and for every unknown format; the transcript for "markdown"
export_conversation(store, id, format) ==
    IF ~ConvExists(store, id)
    THEN <<>>
    ELSE IF format = "json"
         THEN store[id]
         ELSE IF format = "markdown"
              THEN _export_to_markdown(id, store[id])
              ELSE store[id]

\* The values the route admits: Query("json", regex="^(json|markdown)$")
query_formats == {"json", "markdown"}

ExportFormats == {"json", "markdown", "xml"}

----------------------------------------------------------------------------
(* backend/app/services/qa/qa_service.py *)

\* The English keywords of the source; its Chinese keywords cannot occur in
\* the questions of this model, which are over ASCII letters
logical_keywords ==
    { <<"w","h","y">>, <<"h","o","w">>,
      <<"w","h","y"," ","c","h","o","o","s","e">> }

analytical_keywords ==
    { <<"a","n","a","l","y","z","e">>, <<"e","v","a","l","u","a","t","e">>,
      <<"c","o","m","p","a","r","e">>, <<"i","m","p","a","c","t">>,
      <<"l","i","m","i","t","a","t","i","o","n">> }

\* The type of a question already in lower case
question_type_of(question_lower) ==
    IF \E k \in analytical_keywords : Contains(question_lower, k)
    THEN "analytical"
    ELSE IF \E k \in logical_keywords : Contains(question_lower, k)
         THEN "logical"
         ELSE "factual"

\* _analyze_question_type (question.lower() is computed once)
_analyze_question_type(question) ==
    CHOOSE t \in { question_type_of(question_lower) :
                     question_lower \in {Lower(question)} } : TRUE

\* _analyze_question_type of every question of the model, computed once
QuestionTypes ==
    { <<q, _analyze_question_type(QuestionText[q])>> : q \in Questions }

\* An answer is a sequence of words.  The five low-confidence words of the
\* source (wei zhao dao, mei you, wu fa, bu qing chu, bu que ding) are the
\* words below.
low_confidence_words == {"weizhaodao", "meiyou", "wufa", "buqingchu", "buqueding"}

\* Mutant of _calculate_confidence: the base confidence is not capped at 1
_calculate_confidence_uncapped(answer, n) ==
    IF n = 0
    THEN <<0, 1>>
    ELSE IF \E i \in 1..Len(answer) : answer[i] \in low_confidence_words
         THEN <<n, 6>>
         ELSE <<n, 3>>

\* _calculate_confidence: 0 without sections; min(n/3, 1), halved when the
\* answer holds a low-confidence word
_calculate_confidence(answer, n) ==
    IF n = 0
    THEN <<0, 1>>
    ELSE IF \E i \in 1..Len(answer) : answer[i] \in low_confidence_words
         THEN <<Min(n, 3), 6>>
         ELSE <<Min(n, 3), 3>>

\* _build_answer_sources: one source per retrieved chunk
_build_answer_sources(n) == [i \in 1..n |-> [source_type |-> "section", source_id |-> i]]

\* What the environment does to one answer_question call:
\*   fault  the step of the try block that raises ("none": no step does)
\*   err    str(e) of the exception raised
\*   n      the number of chunks _retrieve_relevant_sections returns (it
\*          keeps at most max_chunks)
\*   reply  the LLM's reply: a 200 with a plain or a hedging answer, or a
\*          non-200, which _call_deepseek_api returns as text
\*   elapsed  datetime.now() - start_time when the response is built, in
\*          microseconds (0 when the clock has not advanced)
QAFaults == {"none", "classify", "retrieve", "context", "llm", "post"}
ErrTexts == {"timeout"}
Retrieved == 0..max_chunks
Replies == {"plain", "hedged", "http_error"}

QAEnvs == { [fault |-> f, err |-> e, n |-> n, reply |-> r, elapsed |-> t] :
              f \in QAFaults, e \in ErrTexts, n \in Retrieved, r \in Replies,
              t \in ProcessingTimes }

\* _call_deepseek_api's return value
llm_answer(reply) ==
    CASE reply = "plain" -> <<"the", "answer">>
      [] reply = "hedged" -> <<"meiyou", "information">>
      [] OTHER -> <<"API call failed: ", "500">>

\* The response of the except clause: "<apology>: str(e)"
error_response(err, elapsed) ==
    [raised |-> FALSE,
     answer |-> <<"sorry, an error occurred: ", err>>,
     confidence |-> <<0, 1>>,
     sources |-> <<>>,
     question_type |-> "factual",
     processing_time |-> elapsed]

\* Mutant of answer_question: the question is classified before the try
\* block is entered, so a failure of that step propagates
answer_question_unguarded(question, env) ==
    IF env.fault = "classify"
    THEN [error_response(env.err, env.elapsed) EXCEPT !.raised = TRUE]
    ELSE IF env.fault # "none"
         THEN error_response(env.err, env.elapsed)
         ELSE [raised |-> FALSE,
               answer |-> llm_answer(env.reply),
               confidence |-> _calculate_confidence(llm_answer(env.reply), env.n),
               sources |-> _build_answer_sources(env.n),
               question_type |-> (CHOOSE p \in QuestionTypes : p[1] = question)[2],
               processing_time |-> env.elapsed]

\* answer_question: the steps of the try block in order; the first one that
\* raises sends control to the except clause.  `raised` tells whether the
\* call itself raised.
answer_question(question, env) ==
    IF env.fault # "none"
    THEN error_response(env.err, env.elapsed)
    ELSE LET answer_text == llm_answer(env.reply)
         IN  [raised |-> FALSE,
              answer |-> answer_text,
              confidence |-> _calculate_confidence(answer_text, env.n),
              sources |-> _build_answer_sources(env.n),
              question_type |-> (CHOOSE p \in QuestionTypes : p[1] = question)[2],
              processing_time |-> env.elapsed]

----------------------------------------------------------------------------
(* backend/app/api/qa.py: ConversationManager (legacy in-process history) *)

\* Mutant of deque_append: a full deque drops its newest turn
deque_append_drops_newest(q, x) ==
    IF Len(q) >= max_history_per_doc
    THEN Append(SubSeq(q, 1, Len(q) - 1), x)
    ELSE Append(q, x)

\* deque(maxlen=max_history_per_doc).append
deque_append(q, x) ==
    IF Len(q) >= max_history_per_doc THEN Append(Tail(q), x) ELSE Append(q, x)

\* _cleanup_old_conversations: the documents whose last access is older
\* than max_age_hours
expired_docs(la, t) == { d \in DOMAIN la : t - la[d] > max_age_hours }

Restrict(f, S) == [x \in S |-> f[x]]

\* add_conversation: append the turn, stamp last_access, purge.
\* The result is <<conversations, last_access>>.
add_conversation(h, la, t, document_id, question, answer) ==
    LET old == IF document_id \in DOMAIN h THEN h[document_id] ELSE <<>>
        h1 == [x \in DOMAIN h \cup {document_id} |->
                  IF x = document_id
                  THEN deque_append(old, [question |-> question, answer |-> answer])
                  ELSE h[x]]
        la1 == [x \in DOMAIN la \cup {document_id} |->
                  IF x = document_id THEN t ELSE la[x]]
        gone == expired_docs(la1, t)
    IN  << Restrict(h1, DOMAIN h1 \ gone), Restrict(la1, DOMAIN la1 \ gone) >>

----------------------------------------------------------------------------
(* backend/app/api/qa.py: ask_question *)

\* document is the Document the handler loaded when the request arrived
AskIdle == [pc |-> "idle", document_id |-> 0, question |-> "q3",
            conversation_id |-> 0, created |-> FALSE, document |-> NullDoc]

\* _retrieve_relevant_sections takes its candidates from document.sections,
\* which every parser assigns together with document.metadata: a document
\* whose parser stored nothing has none, whatever the question; n is the
\* number it finds in a document that has sections
_retrieve_relevant_sections(document, n) ==
    IF document.metadata = "none" THEN 0 ELSE n

\* Mutant of AskableStatus: no status is refused
AskableStatus_any == DocumentStatus

\* The statuses ask accepts
AskableStatus == {"parsed", "extracted", "completed"}

\* document.metadata.title if document.metadata else the "unknown" title
document_title(document) ==
    IF document.metadata # "none" THEN "title" ELSE "unknown document"

\* What ask_question reads and writes: the two stores, the requests in
\* flight, the legacy history and the clock
AskState ==
    [docs |-> docs, convs |-> convs, nextConv |-> nextConv, asks |-> asks,
     asked |-> asked, answered |-> answered, history |-> history,
     last_access |-> last_access, now |-> now]

\* The request the handler of client u is suspended in
Answering(d, q, cid, created, document) ==
    [pc |-> "answering", document_id |-> d, question |-> q,
     conversation_id |-> cid, created |-> created, document |-> document]

\* ask_question up to the LLM call, in the state s: validate, resolve or
\* create the conversation.  cid = 0 is a request without conversation_id.
\* The result is the response, a 404 or a 400 or none yet (code 0; info is
\* the request's conversation_id), and the state the handler leaves.
ask_question_start(s, u, d, q, cid) ==
    IF ~DocExists(s.docs, d)
    THEN [resp |-> Resp("ask", d, 404, cid), s |-> s]
    ELSE IF s.docs[d].status \notin AskableStatus
    THEN [resp |-> Resp("ask", d, 400, cid), s |-> s]
    ELSE IF cid # 0
    THEN IF ~ConvExists(s.convs, cid)
         THEN [resp |-> Resp("ask", d, 404, cid), s |-> s]
         ELSE [resp |-> Resp("ask", d, 0, cid),
               s |-> [s EXCEPT !.asks[u] = Answering(d, q, cid, FALSE, s.docs[d]),
                               !.asked = @ + 1]]
    ELSE [resp |-> Resp("ask", d, 0, cid),
          s |-> [s EXCEPT
                   !.convs = save_conversation(@, s.nextConv,
                                 create_conversation(d, document_title(s.docs[d]), q)),
                   !.nextConv = @ + 1,
                   !.asks[u] = Answering(d, q, s.nextConv, TRUE, s.docs[d]),
                   !.asked = @ + 1]]

\* Bounds of the model on the requests: client u is free and no client
\* before it is, at most MaxAsks requests, at most MaxConvs conversations
AskArrives(s, u, d, q, cid) ==
    /\ s.asks[u].pc = "idle"
    /\ \A v \in Clients : v < u => s.asks[v].pc # "idle"
    /\ s.asked < MaxAsks
    /\ (/\ DocExists(s.docs, d)
        /\ s.docs[d].status \in AskableStatus
        /\ cid = 0) => s.nextConv <= MaxConvs

\* ask_question after the LLM call, in the state s: append the turn to the
\* persisted conversation (the result of add_qa_to_conversation is not
\* looked at), mirror it into the legacy history, return the response.  An
\* exception out of answer_question would become a 500.
ask_question_finish(s, u, env) ==
    LET a == s.asks[u]
        found == _retrieve_relevant_sections(a.document, env.n)
        qa == answer_question(a.question, [env EXCEPT !.n = found])
        entry == [question |-> a.question, answer |-> qa.answer,
                  confidence |-> qa.confidence, sources |-> qa.sources,
                  processing_time |-> qa.processing_time,
                  question_type |-> qa.question_type]
        legacy == add_conversation(s.history, s.last_access, s.now,
                                   a.document_id, a.question, qa.answer)
    IN  IF qa.raised
        THEN [resp |-> Resp("ask_done", a.document_id, 500, <<>>),
              s |-> [s EXCEPT !.asks[u] = AskIdle]]
        ELSE [resp |-> Resp("ask_done", a.document_id, 200,
                            [conversation_id |-> a.conversation_id,
                             question |-> a.question,
                             answer |-> qa.answer,
                             confidence |-> qa.confidence,
                             sources |-> qa.sources,
                             question_type |-> qa.question_type,
                             processing_time |-> qa.processing_time,
                             created |-> a.created,
                             fault |-> env.fault]),
              s |-> [s EXCEPT
                       !.convs = add_qa_to_conversation(@, a.conversation_id, entry),
                       !.history = legacy[1],
                       !.last_access = legacy[2],
                       !.answered[a.conversation_id] = Append(@, a.question),
                       !.asks[u] = AskIdle]]

\* The state s becomes the state of the service
Becomes(s) ==
    /\ convs' = s.convs
    /\ nextConv' = s.nextConv
    /\ asks' = s.asks
    /\ asked' = s.asked
    /\ answered' = s.answered
    /\ history' = s.history
    /\ last_access' = s.last_access

\* A request of client u arrives and runs up to the LLM call
AskStart(u, d, q, cid) ==
    /\ Idle
    /\ AskArrives(AskState, u, d, q, cid)
    /\ LET r == ask_question_start(AskState, u, d, q, cid)
       IN  /\ Becomes(r.s)
           /\ resp' = r.resp
    /\ UNCHANGED <<docVars, now, qaVars>>

\* The LLM call of client u's request returns and the handler runs to its
\* end
AskFinish(u, env) ==
    /\ Idle
    /\ asks[u].pc = "answering"
    /\ LET r == ask_question_finish(AskState, u, env)
       IN  /\ Becomes(r.s)
           /\ resp' = r.resp
    /\ UNCHANGED <<docVars, now, qaVars>>

----------------------------------------------------------------------------
(* backend/app/api/qa.py: archive, delete and export of a conversation *)

ArchiveConversation(c) ==
    /\ Idle
    /\ convs' = archive_conversation(convs, c)
    /\ resp' = Resp("archive", c, IF ConvExists(convs, c) THEN 200 ELSE 404, <<>>)
    /\ UNCHANGED <<docVars, nextConv, asks, asked, answered, legacyVars, qaVars>>

DeleteConversation(c) ==
    /\ Idle
    /\ convs' = delete_conversation(convs, c)
    /\ resp' = Resp("delete_conversation", c,
                    IF ConvExists(convs, c) THEN 200 ELSE 404, <<>>)
    /\ UNCHANGED <<docVars, nextConv, asks, asked, answered, legacyVars, qaVars>>

\* GET /conversation/{c}/export?format=...: a format the Query pattern
\* refuses is answered 422 before the handler runs; otherwise info is what
\* ConversationStorage.export_conversation returns (404 for None)
ExportConversation(c, format) ==
    /\ Idle
    /\ resp' = IF format \notin query_formats
               THEN Resp("export", c, 422, [format |-> format, data |-> <<>>])
               ELSE Resp("export", c,
                         IF ConvExists(convs, c) THEN 200 ELSE 404,
                         [format |-> format,
                          data |-> export_conversation(convs, c, format)])
    /\ UNCHANGED <<docVars, convVars, legacyVars, qaVars>>

----------------------------------------------------------------------------
(* Direct calls of QAService.answer_question *)

NoCall == [pc |-> "none", question |-> "q3", env |-> <<>>, result |-> <<>>]

AnswerQuestion(q, env) ==
    /\ call' = [pc |-> "returned", question |-> q, env |-> env,
                result |-> answer_question(q, env)]
    /\ resp' = NoResp
    /\ UNCHANGED <<docVars, convVars, legacyVars, session>>

----------------------------------------------------------------------------
(* The frontend: st.session_state of one browser session *)

\* The documents the frontend lists, both parsed; conversation c of the
\* backend belongs to document c, so a conversation detail names its document
UiDocs == {1, 3}
DetailDocument(c) == c

\* The body of POST /qa/ask as the frontend stores it; NoQaResult is None
QaResult(d, c) == [document_id |-> d, conversation_id |-> c]
NoQaResult == QaResult(0, 0)

\* custom_summary_result: the stored summary of document d; None is d = 0
CustomSummary(d) == [document_id |-> d]
NoCustomSummary == CustomSummary(0)

UiSummaryTypes == {"full", "section", "custom"}

\* The questions GET /qa/suggestions offers, the first option of their
\* selectbox, which is no question, and the follow-up questions of an answer
UiSuggestions == {"s1"}
suggestion_placeholder == "placeholder"
UiFollowups == {"f1"}

\* The session after the "not in st.session_state" defaults of qa_tab and
\* summarization_tab; 0 stands for None, a set for the keys with a prefix,
\* summary_doc and summary_type for the values of the two unkeyed widgets
\* (the first option each), delete_confirm for the conversations whose
\* delete_confirm_<id> is True
NoSession ==
    [qa_selected_doc_id |-> 0,
     qa_result |-> NoQaResult,
     qa_question |-> "",
     qa_suggestion_selected |-> "",
     delete_confirm |-> {},
     current_conversation_id |-> 0,
     show_history_sidebar |-> FALSE,
     view_conversation_id |-> 0,
     hide_qa_interface |-> FALSE,
     conversations |-> {},
     conversation_detail |-> {},
     showing_conv_detail |-> 0,
     summary_doc |-> 1,
     summary_type |-> "full",
     custom_summary_generated |-> FALSE,
     custom_summary_result |-> NoCustomSummary]

----------------------------------------------------------------------------
(* The document pipeline: upload, background parsing, reprocess, delete *)

InitDocs ==
    /\ docs = <<>>
    /\ files = {}
    /\ tasks = [d \in DocIds |-> 0]
    /\ nextDoc = 1
    /\ up = [u \in Clients |-> UpIdle]
    /\ bg = BgIdle
    /\ convs = <<>>
    /\ nextConv = 1
    /\ asks = [u \in Clients |-> AskIdle]
    /\ asked = 0
    /\ answered = [c \in ConvIds |-> <<>>]
    /\ history = <<>>
    /\ last_access = <<>>
    /\ now = 0
    /\ call = NoCall
    /\ session = NoSession
    /\ resp = NoResp

NextDocs ==
    \/ \E u \in Clients, fs \in Batches : UploadBegin(u, fs)
    \/ \E u \in Clients : UploadFile(u)
    \/ \E u \in Clients : UploadSave(u)
    \/ \E u \in Clients, url \in Urls : UploadFromUrl(u, url)
    \/ \E u \in Clients, download \in Downloads : UrlDownloaded(u, download)
    \/ \E u \in Clients : UrlSave(u)
    \/ \E d \in DocIds : DeleteDocument(d)
    \/ \E d \in DocIds : ReprocessDocument(d)
    \/ \E d \in DocIds : ProcStart(d)
    \/ \E fault \in ParseFaults : ProcParse(fault)
    \/ ProcFinish

Spec == InitDocs /\ [][NextDocs]_vars

\* The process keeps running: a request in its file loop goes on, every
\* queued background task is started, and a started task runs to its end.
\* Requests (upload, delete, reprocess) arrive or not as clients choose.
Running ==
    /\ \A u \in Clients : SF_vars(UploadFile(u))
    /\ \A u \in Clients : SF_vars(UploadSave(u))
    /\ \A u \in Clients : SF_vars(\E download \in Downloads : UrlDownloaded(u, download))
    /\ \A u \in Clients : SF_vars(UrlSave(u))
    /\ \A d \in DocIds : SF_vars(ProcStart(d))
    /\ WF_vars(\E fault \in ParseFaults : ProcParse(fault))
    /\ WF_vars(ProcFinish)

SpecRunning == Spec /\ Running

----------------------------------------------------------------------------
(* Questions and conversations over a store of processed documents *)

\* The store after three uploads (a PDF, a text file, a text file): the
\* first parsed, the second not yet processed, the third parsed by a parser
\* that failed on it
StoredDoc(d) ==
    CASE d = 1 -> [Document("pdf") EXCEPT !.status = "parsed", !.metadata = "meta"]
      [] d = 2 -> Document("text")
      [] OTHER -> [Document("text") EXCEPT
                     !.status = "parsed",
                     !.processing_errors = << <<ErrorPrefix("text"), "e">> >>]

\* The questions the ask flow is run with
AskQuestions == {"q50", "q51", "qmd"}

\* The outcomes of answer_question the ask flow is run with
AskEnvs ==
    { [fault |-> "none", err |-> "timeout", n |-> 2, reply |-> "plain", elapsed |-> 15000],
      [fault |-> "none", err |-> "timeout", n |-> 2, reply |-> "plain", elapsed |-> 0],
      [fault |-> "llm", err |-> "timeout", n |-> 2, reply |-> "plain", elapsed |-> 15000] }

InitQA ==
    /\ docs = [d \in DocIds |-> StoredDoc(d)]
    /\ files = DocIds
    /\ tasks = [d \in DocIds |-> 0]
    /\ nextDoc = MaxDocs + 1
    /\ up = [u \in Clients |-> UpIdle]
    /\ bg = BgIdle
    /\ convs = <<>>
    /\ nextConv = 1
    /\ asks = [u \in Clients |-> AskIdle]
    /\ asked = 0
    /\ answered = [c \in ConvIds |-> <<>>]
    /\ history = <<>>
    /\ last_access = <<>>
    /\ now = 0
    /\ call = NoCall
    /\ session = NoSession
    /\ resp = NoResp

NextQA ==
    \/ \E u \in Clients, d \in DocIds, q \in AskQuestions, cid \in ConvIds \cup {0} :
          AskStart(u, d, q, cid)
    \/ \E u \in Clients, env \in AskEnvs : AskFinish(u, env)
    \/ \E c \in ConvIds : ArchiveConversation(c)
    \/ \E c \in ConvIds : DeleteConversation(c)
    \/ \E c \in ConvIds, format \in ExportFormats : ExportConversation(c, format)
    \/ \E d \in DocIds : DeleteDocument(d)

SpecQA == InitQA /\ [][NextQA]_vars

----------------------------------------------------------------------------
(* DocumentStorage on its own.  update_document_status is called by no     *)
(* route and no task of the repository, so it is no step of the pipeline   *)
(* above: here a caller of the class uses it next to delete_document.      *)

UpdateDocumentStatus(d, status) ==
    /\ LET r == update_document_status(docs, d, status)
       IN  /\ docs' = r.store
           /\ resp' = Resp("update_document_status", d, 0,
                           [ok |-> r.ok, status |-> status])
    /\ UNCHANGED <<files, tasks, nextDoc, up, bg, convVars, legacyVars, qaVars>>

StorageDelete(d) ==
    /\ docs' = delete_document(docs, d)
    /\ resp' = Resp("storage_delete", d, 0, [ok |-> DocExists(docs, d)])
    /\ UNCHANGED <<files, tasks, nextDoc, up, bg, convVars, legacyVars, qaVars>>

NextStorage ==
    \/ \E d \in DocIds, status \in DocumentStatus : UpdateDocumentStatus(d, status)
    \/ \E d \in DocIds : StorageDelete(d)

SpecStorage == InitQA /\ [][NextStorage]_vars

----------------------------------------------------------------------------
(* QAService.answer_question on its own *)

NextAnswer == \E q \in Questions, env \in QAEnvs : AnswerQuestion(q, env)

SpecAnswer == InitDocs /\ [][NextAnswer]_vars

----------------------------------------------------------------------------
(* Concurrent ask requests only.  An ask in flight completes: the LLM call *)
(* is bounded by a timeout of 60 seconds.                                  *)

NextAsk ==
    \/ \E u \in Clients, d \in DocIds, q \in AskQuestions, cid \in ConvIds \cup {0} :
          AskStart(u, d, q, cid)
    \/ \E u \in Clients, env \in AskEnvs : AskFinish(u, env)

SpecAsk ==
    /\ InitQA
    /\ [][NextAsk]_vars
    /\ WF_vars(\E u \in Clients, env \in AskEnvs : AskFinish(u, env))

----------------------------------------------------------------------------
(* backend/app/api/qa.py: the routes of the legacy in-process history *)

\* ConversationManager.get_conversation_history: purge, stamp last_access,
\* read conversations[document_id] (a defaultdict: the read creates an empty
\* deque).  The result is <<conversations, last_access, history>>.
get_conversation_history(h, la, t, document_id) ==
    LET gone == expired_docs(la, t)
        h0 == Restrict(h, DOMAIN h \ gone)
        la0 == Restrict(la, DOMAIN la \ gone)
        la1 == [x \in DOMAIN la0 \cup {document_id} |->
                  IF x = document_id THEN t ELSE la0[x]]
        h1 == [x \in DOMAIN h0 \cup {document_id} |->
                  IF x \in DOMAIN h0 THEN h0[x] ELSE <<>>]
    IN  <<h1, la1, h1[document_id]>>

\* ConversationManager.clear_conversation: empty the deque, forget the
\* last access.  The result is <<conversations, last_access>>.
clear_conversation(h, la, document_id) ==
    << [x \in DOMAIN h |-> IF x = document_id THEN <<>> ELSE h[x]],
       Restrict(la, DOMAIN la \ {document_id}) >>

\* The routes of the router whose path is one parameter under
\* /conversation, in the order the module registers them
ConversationRoutes ==
    << [method |-> "DELETE", path |-> "/conversation/{conversation_id}",
        handler |-> "delete_conversation"],
       [method |-> "GET", path |-> "/conversation/{document_id}",
        handler |-> "get_conversation_history"],
       [method |-> "DELETE", path |-> "/conversation/{document_id}",
        handler |-> "clear_conversation_history"],
       [method |-> "POST", path |-> "/conversation/{document_id}",
        handler |-> "start_conversation"] >>

\* The router serves a request /conversation/<one segment> by the first
\* registered route of that method: every such path matches it, whatever
\* the name of the parameter
route_handler(method) ==
    LET matching == { i \in DOMAIN ConversationRoutes :
                        ConversationRoutes[i].method = method }
    IN  ConversationRoutes[CHOOSE i \in matching : \A j \in matching : i <= j].handler

\* GET /qa/conversation/<document id d>
GetHistory(d) ==
    /\ Idle
    /\ IF ~DocExists(docs, d)
       THEN /\ resp' = Resp("get_history", d, 404, <<>>)
            /\ UNCHANGED <<history, last_access>>
       ELSE LET r == get_conversation_history(history, last_access, now, d)
            IN  /\ history' = r[1]
                /\ last_access' = r[2]
                /\ resp' = Resp("get_history", d, 200, r[3])
    /\ UNCHANGED <<docVars, convVars, now, qaVars>>

\* DELETE /qa/conversation/<document id d>.  Served by delete_conversation,
\* the path segment is looked up in the conversation store, where no
\* conversation has a document's id (both are uuid4 values); served by
\* clear_conversation_history, the document's history is cleared.
ClearHistory(d) ==
    /\ Idle
    /\ IF route_handler("DELETE") = "delete_conversation"
       THEN /\ resp' = Resp("clear_history", d, 404, "delete_conversation")
            /\ UNCHANGED <<history, last_access>>
       ELSE IF ~DocExists(docs, d)
            THEN /\ resp' = Resp("clear_history", d, 404, "clear_conversation_history")
                 /\ UNCHANGED <<history, last_access>>
            ELSE LET r == clear_conversation(history, last_access, d)
                 IN  /\ history' = r[1]
                     /\ last_access' = r[2]
                     /\ resp' = Resp("clear_history", d, 200,
                                     "clear_conversation_history")
    /\ UNCHANGED <<docVars, convVars, now, qaVars>>

\* The questions and outcomes the legacy history is filled with
LegacyQuestions == {"q3"}

NextLegacy ==
    \/ \E u \in Clients, d \in DocIds, q \in LegacyQuestions, cid \in ConvIds \cup {0} :
          AskStart(u, d, q, cid)
    \/ \E u \in Clients, env \in AskEnvs : AskFinish(u, env)
    \/ \E d \in DocIds : GetHistory(d)
    \/ \E d \in DocIds : ClearHistory(d)
    \/ \E d \in DocIds : DeleteDocument(d)

SpecLegacy == InitQA /\ [][NextLegacy]_vars

----------------------------------------------------------------------------
(* backend/app/services/summarizer/summarizer_service.py and               *)
(* backend/app/api/summaries.py: custom summaries                          *)

\* A summary result: its "type", the "keywords" and "template" fields it
\* carries ("" and <<>>: the field is absent) and the request inputs its
\* prompt is built from.
SummaryResult(type, keywords, template, prompt_keywords, prompt_template) ==
    [type |-> type, keywords |-> keywords, template |-> template,
     prompt_keywords |-> prompt_keywords, prompt_template |-> prompt_template]

NoSummary == SummaryResult("none", <<>>, "", <<>>, "")

\* summarize_document(document, summary_type): the prompts of the three
\* built-in summaries use no request input; the generic custom summary
\* names its fixed structure in metadata.template
summarize_document(summary_type) ==
    CASE summary_type = "full" -> SummaryResult("full_summary", <<>>, "", <<>>, "")
      [] summary_type = "section" -> SummaryResult("section_summary", <<>>, "", <<>>, "")
      [] summary_type = "custom" ->
            SummaryResult("custom_summary", <<>>, "problem-method-conclusion", <<>>, "")
      [] OTHER -> SummaryResult("error", <<>>, "", <<>>, "")

generate_summary_by_keywords(keywords) ==
    SummaryResult("keyword_summary", keywords, "", keywords, "")

generate_summary_by_template(template) ==
    SummaryResult("template_summary", <<>>, template, <<>>, template)

\* Defined by the service, called by no route
generate_summary_by_keywords_and_template(keywords, template) ==
    SummaryResult("keywords_template_summary", keywords, template, keywords, template)

\* The dispatch both routes share: if keywords / elif template / else
custom_dispatch(keywords, template) ==
    IF keywords # <<>>
    THEN generate_summary_by_keywords(keywords)
    ELSE IF template # ""
         THEN generate_summary_by_template(template)
         ELSE summarize_document("custom")

\* The request inputs: keywords None or [] are <<>>, template None or "" is ""
KeywordLists == { <<>>, <<"k1">>, <<"k1", "k2">> }
Templates == { "", "problem_method_conclusion", "free text" }
SummaryTypes == { "full", "section", "custom", "abstract" }

SummaryInfo(route, summary_type, keywords, template, result) ==
    [route |-> route, summary_type |-> summary_type, keywords |-> keywords,
     template |-> template, result |-> result]

\* A summary request waiting for the LLM: the handler has loaded the
\* document and awaits the summarizer
Summarizing(route, d, summary_type, keywords, template) ==
    [pc |-> "summarizing", route |-> route, document_id |-> d,
     summary_type |-> summary_type, keywords |-> keywords, template |-> template]

\* POST /summaries/custom/{document_id} arrives: 404 without the record (no
\* status check), otherwise the summarizer is awaited
GetCustomSummary(d, keywords, template) ==
    /\ Idle
    /\ call = NoCall
    /\ IF ~DocExists(docs, d)
       THEN /\ resp' = Resp("summary", d, 404,
                            SummaryInfo("custom", "custom", keywords, template,
                                        NoSummary))
            /\ call' = call
       ELSE /\ resp' = NoResp
            /\ call' = Summarizing("custom", d, "custom", keywords, template)
    /\ UNCHANGED <<docVars, convVars, legacyVars, session>>

\* POST /summaries/generate arrives: 404, 400 for a status that is not
\* parsed/extracted/completed or an unknown summary type, otherwise the
\* summarizer is awaited
GenerateSummary(d, summary_type, keywords, template) ==
    /\ Idle
    /\ call = NoCall
    /\ LET refused(code) ==
               Resp("summary", d, code,
                    SummaryInfo("generate", summary_type, keywords, template,
                                NoSummary))
       IN  IF ~DocExists(docs, d)
           THEN resp' = refused(404) /\ call' = call
           ELSE IF docs[d].status \notin {"parsed", "extracted", "completed"}
                THEN resp' = refused(400) /\ call' = call
                ELSE IF summary_type \notin {"full", "section", "custom"}
                     THEN resp' = refused(400) /\ call' = call
                     ELSE /\ resp' = NoResp
                          /\ call' = Summarizing("generate", d, summary_type,
                                                 keywords, template)
    /\ UNCHANGED <<docVars, convVars, legacyVars, session>>

\* The summarizer returns: the handler answers with its result, whatever
\* became of the record meanwhile
SummaryAnswered ==
    /\ Idle
    /\ call.pc = "summarizing"
    /\ resp' = Resp("summary", call.document_id, 200,
                    SummaryInfo(call.route, call.summary_type, call.keywords,
                                call.template,
                                IF call.summary_type = "custom"
                                THEN custom_dispatch(call.keywords, call.template)
                                ELSE summarize_document(call.summary_type)))
    /\ call' = NoCall
    /\ UNCHANGED <<docVars, convVars, legacyVars, session>>

NextSummary ==
    \/ \E d \in DocIds, k \in KeywordLists, t \in Templates :
          GetCustomSummary(d, k, t)
    \/ \E d \in DocIds, s \in SummaryTypes, k \in KeywordLists, t \in Templates :
          GenerateSummary(d, s, k, t)
    \/ SummaryAnswered
    \/ \E d \in DocIds : DeleteDocument(d)

SpecSummary == InitQA /\ [][NextSummary]_vars

----------------------------------------------------------------------------
(* backend/app/services/search/ai_search_service.py *)

\* final_score = ai_score * 0.7 + (preliminary_score / 100.0) * 0.3, in the
\* floating point of Python: each operation rounds to the nearest double
final_score(ai_score, preliminary_score) ==
    DAdd(DMul(ai_score, FromDecimal(Tenths(7))),
         DMul(DDivNat(preliminary_score, 100), FromDecimal(Tenths(3))))

RECURSIVE insert_desc(_, _)
\* The place list.sort(key=score, reverse=True) gives x among the results
\* before it: behind every result whose score is not lower (the sort is
\* stable)
insert_desc(sorted, x) ==
    IF sorted = <<>>
    THEN <<x>>
    ELSE IF DGeq(Head(sorted).score, x.score)
         THEN <<Head(sorted)>> \o insert_desc(Tail(sorted), x)
         ELSE <<x>> \o sorted

RECURSIVE sort_desc(_, _)
sort_desc(results, n) ==
    IF n = 0 THEN <<>> ELSE insert_desc(sort_desc(results, n - 1), results[n])

\* The results list before it is sorted: one result per chunk that has an
\* ai score
scored_results(chunks, ai_scores) ==
    [i \in 1..Min(Len(chunks), Len(ai_scores)) |->
        [section_id |-> chunks[i].section_id,
         score |-> final_score(ai_scores[i], chunks[i].preliminary_score),
         ai_score |-> ai_scores[i],
         preliminary_score |-> chunks[i].preliminary_score]]

\* The slice results[:stop] of a list: the first stop elements, or, for a
\* negative stop, all but the last -stop
slice_to(results, stop) ==
    IF stop >= 0
    THEN SubSeq(results, 1, Min(stop, Len(results)))
    ELSE SubSeq(results, 1, Max(Len(results) + stop, 0))

\* Mutant of _combine_scores_and_rank: the results are not sorted
_combine_scores_and_rank_unsorted(chunks, ai_scores, top_k) ==
    slice_to(scored_results(chunks, ai_scores), top_k)

\* _combine_scores_and_rank: score, sort by score descending, results[:top_k]
_combine_scores_and_rank(chunks, ai_scores, top_k) ==
    LET results == scored_results(chunks, ai_scores)
        sorted == sort_desc(results, Len(results))
    IN  slice_to(sorted, top_k)

\* The candidates _preliminary_filter hands over: at least the threshold
\* of 30 each and in non-increasing order of preliminary_score
PreliminaryScores ==
    { FromDecimal(Dec(n, 0)) : n \in {30, 50, 68, 138} }
AiScores == { FromDecimal(Tenths(n)) : n \in {0, 3, 8} }

CandidateLists ==
    { [i \in 1..Len(p) |-> [section_id |-> i, preliminary_score |-> p[i]]] :
        p \in { s \in UNION { [1..n -> PreliminaryScores] : n \in 0..MaxCandidates } :
                  \A i \in 1..(Len(s) - 1) : DGeq(s[i], s[i + 1]) } }

AiScoreLists == UNION { [1..n -> AiScores] : n \in 0..MaxCandidates }

\* enhanced_search hands its top_k on as it got it: any int, also one below
\* 0 or above the number of candidates
TopKs == (0 - MaxCandidates - 1)..(MaxCandidates + 1)

\* One call of _combine_scores_and_rank
CombineScoresAndRank(chunks, ai_scores, top_k) ==
    /\ call = NoCall
    /\ call' = [pc |-> "ranked", chunks |-> chunks, ai_scores |-> ai_scores,
                top_k |-> top_k,
                result |-> _combine_scores_and_rank(chunks, ai_scores, top_k)]
    /\ resp' = NoResp
    /\ UNCHANGED <<docVars, convVars, legacyVars, session>>

NextSearch ==
    \E chunks \in CandidateLists, ai_scores \in AiScoreLists, top_k \in TopKs :
        CombineScoresAndRank(chunks, ai_scores, top_k)

SpecSearch == InitDocs /\ [][NextSearch]_vars

----------------------------------------------------------------------------
(* src/deeplit_analyzer: config.py, analyzer.py, cli.py *)

\* Config.deepseek_api_key: None (is_none) or a string
ApiKey(is_none, value) == [is_none |-> is_none, value |-> value]

ApiKeys ==
    { ApiKey(TRUE, <<>>), ApiKey(FALSE, <<>>), ApiKey(FALSE, <<" ", "\t", " ">>),
      ApiKey(FALSE, <<"k">>), ApiKey(FALSE, <<" ", "k", " ">>) }

\* Mutant of validate_api_key: the key is not stripped
validate_api_key_unstripped(key) == ~key.is_none /\ Len(key.value) > 0

\* Config.validate_api_key
validate_api_key(key) == ~key.is_none /\ Len(strip(key.value)) > 0

\* DeepLitAnalyzer.__init__: the exception it raises, "None" when it returns
DeepLitAnalyzer_init(key) == IF ~validate_api_key(key) THEN "ValueError" ELSE "None"

\* What the LLM API does to the calls of one command:
\*   abstract_fault, key_points_fault  the request of that step raises
\*   err      str(e) of the exception (an exception may have no message)
\*   content  the reply to the key-points request: a JSON list or free text
\*   readable the paper file can be read as UTF-8
ApiErrors == {"API Error", ""}
KeyPointReplies == {"json", "text"}

AnalyzerEnvs ==
    { [abstract_fault |-> a, key_points_fault |-> k, err |-> m, content |-> c,
       readable |-> r] :
        a \in BOOLEAN, k \in BOOLEAN, m \in ApiErrors, c \in KeyPointReplies,
        r \in BOOLEAN }

\* extract_key_points on a reply: json.loads, or the stripped non-empty lines
extract_key_points(content) ==
    IF content = "json" THEN <<"point 1", "point 2">> ELSE <<"point 1">>

\* Mutant of analyze_paper: the abstract already generated is kept when the
\* key points fail
analyze_paper_partial(env) ==
    IF env.abstract_fault
    THEN [raised |-> FALSE, requests |-> 1, abstract |-> "None", key_points |-> <<>>,
          analysis_complete |-> FALSE, error |-> env.err]
    ELSE IF env.key_points_fault
         THEN [raised |-> FALSE, requests |-> 2, abstract |-> "the abstract",
               key_points |-> <<>>, analysis_complete |-> FALSE, error |-> env.err]
         ELSE [raised |-> FALSE, requests |-> 2, abstract |-> "the abstract",
               key_points |-> extract_key_points(env.content),
               analysis_complete |-> TRUE, error |-> "None"]

\* analyze_paper: generate_abstract, then extract_key_points, one request
\* each; the first exception ends the try block.  None is "None".
analyze_paper(env) ==
    IF env.abstract_fault
    THEN [raised |-> FALSE, requests |-> 1, abstract |-> "None", key_points |-> <<>>,
          analysis_complete |-> FALSE, error |-> env.err]
    ELSE IF env.key_points_fault
         THEN [raised |-> FALSE, requests |-> 2, abstract |-> "None",
               key_points |-> <<>>, analysis_complete |-> FALSE, error |-> env.err]
         ELSE [raised |-> FALSE, requests |-> 2, abstract |-> "the abstract",
               key_points |-> extract_key_points(env.content),
               analysis_complete |-> TRUE, error |-> "None"]

\* cli.analyze: what it prints last and the number of requests it issued.
\* `if results["error"]` is false for None and for an empty message.
cli_analyze(key, env) ==
    IF ~env.readable
    THEN [printed |-> "error", requests |-> 0, constructed |-> FALSE]
    ELSE IF ~validate_api_key(key)
         THEN [printed |-> "api key not configured", requests |-> 0,
               constructed |-> FALSE]
         ELSE IF DeepLitAnalyzer_init(key) # "None"
              THEN [printed |-> "error", requests |-> 0, constructed |-> FALSE]
              ELSE LET results == analyze_paper(env)
                   IN  [printed |-> IF results.error \notin {"None", ""}
                                    THEN "analysis failed"
                                    ELSE "analysis complete",
                        requests |-> results.requests, constructed |-> TRUE]

\* cli.summarize: one request, for the section or for the abstract
cli_summarize(key, env) ==
    IF ~env.readable
    THEN [printed |-> "error", requests |-> 0, constructed |-> FALSE]
    ELSE IF ~validate_api_key(key)
         THEN [printed |-> "api key not configured", requests |-> 0,
               constructed |-> FALSE]
         ELSE IF DeepLitAnalyzer_init(key) # "None"
              THEN [printed |-> "error", requests |-> 0, constructed |-> FALSE]
              ELSE [printed |-> IF env.abstract_fault THEN "error" ELSE "summary",
                    requests |-> 1, constructed |-> TRUE]

\* DeepLitAnalyzer(Config(deepseek_api_key=key))
Construct(key) ==
    /\ call = NoCall
    /\ call' = [pc |-> "constructed", api_key |-> key,
                raised |-> DeepLitAnalyzer_init(key)]
    /\ resp' = NoResp
    /\ UNCHANGED <<docVars, convVars, legacyVars, session>>

\* analyzer.analyze_paper(paper_text) on an analyzer that was constructed
AnalyzePaper(key, env) ==
    /\ call = NoCall
    /\ DeepLitAnalyzer_init(key) = "None"
    /\ call' = [pc |-> "analyzed", api_key |-> key, env |-> env,
                result |-> analyze_paper(env)]
    /\ resp' = NoResp
    /\ UNCHANGED <<docVars, convVars, legacyVars, session>>

\* deeplit analyze <paper_file>
CliAnalyze(key, env) ==
    /\ call = NoCall
    /\ call' = [pc |-> "cli_analyze", api_key |-> key, env |-> env,
                result |-> cli_analyze(key, env)]
    /\ resp' = NoResp
    /\ UNCHANGED <<docVars, convVars, legacyVars, session>>

\* deeplit summarize <paper_file> [section_title]
CliSummarize(key, env) ==
    /\ call = NoCall
    /\ call' = [pc |-> "cli_summarize", api_key |-> key, env |-> env,
                result |-> cli_summarize(key, env)]
    /\ resp' = NoResp
    /\ UNCHANGED <<docVars, convVars, legacyVars, session>>

NextCli ==
    \/ \E key \in ApiKeys : Construct(key)
    \/ \E key \in ApiKeys, env \in AnalyzerEnvs : AnalyzePaper(key, env)
    \/ \E key \in ApiKeys, env \in AnalyzerEnvs : CliAnalyze(key, env)
    \/ \E key \in ApiKeys, env \in AnalyzerEnvs : CliSummarize(key, env)

SpecCli == InitDocs /\ [][NextCli]_vars

----------------------------------------------------------------------------
(* backend/app/api/qa.py: ConversationManager over passing time *)
(* Time is counted in hours.                                     *)

\* The documents the manager is called for
ManagerDocs == {1, 2}

\* The turns the manager holds for a document
Turns(d) == IF d \in DOMAIN history THEN history[d] ELSE <<>>

\* conversation_manager.add_conversation(d, question, answer); the answer
\* is the number of the call, so that the turns can be told apart.  The
\* long history is built for document 1; the other documents get few turns.
AddConversation(d) ==
    /\ asked < MaxAdds
    /\ d # 1 => Len(Turns(d)) < MaxOtherTurns
    /\ LET r == add_conversation(history, last_access, now, d, "q3",
                                 <<ToString(asked + 1)>>)
       IN  /\ history' = r[1]
           /\ last_access' = r[2]
    /\ asked' = asked + 1
    /\ resp' = Resp("add_conversation", d, 0, <<ToString(asked + 1)>>)
    /\ UNCHANGED <<docVars, convs, nextConv, asks, answered, now, qaVars>>

\* conversation_manager.clear_conversation(d)
ClearConversation(d) ==
    /\ LET r == clear_conversation(history, last_access, d)
       IN  /\ history' = r[1]
           /\ last_access' = r[2]
    /\ resp' = Resp("clear_conversation", d, 0, <<>>)
    /\ UNCHANGED <<docVars, convVars, now, qaVars>>

\* time.time() moves on
Tick ==
    /\ now + TickHours <= MaxTime
    /\ now' = now + TickHours
    /\ resp' = NoResp
    /\ UNCHANGED <<docVars, convVars, history, last_access, qaVars>>

NextManager ==
    \/ \E d \in ManagerDocs : AddConversation(d)
    \/ \E d \in ManagerDocs : GetHistory(d)
    \/ \E d \in ManagerDocs : ClearConversation(d)
    \/ Tick

SpecManager == InitQA /\ [][NextManager]_vars

----------------------------------------------------------------------------
(* backend/app/services/search/ai_search_service.py: _ai_relevance_scoring *)
(* A score is a decimal number m * 10^e, kept normal (m = 0 and e = 0, or  *)
(* m not divisible by 10); decimal texts are taken exactly.                *)

\* A float: finite (the decimal m * 10^e), nan, inf or -inf
Float(kind, m, e) == [ok |-> TRUE, kind |-> kind, m |-> m, e |-> e]
ValueError == [ok |-> FALSE, kind |-> "finite", m |-> 0, e |-> 0]

\* float(s): surrounding whitespace is dropped; an optional sign; then inf,
\* infinity or nan in any ASCII case, or decimal digits of any script with
\* at most one point, an optional exponent e[+-]digits, and single
\* underscores between digits.  Anything else is a ValueError.
py_float(s) ==
    LET t == rstrip_in(lstrip_in(s, FloatSpace), FloatSpace)
        signed == t # <<>> /\ t[1] \in {"+", "-"}
        negative == signed /\ t[1] = "-"
        body == AsciiLower(IF signed THEN Tail(t) ELSE t)
        underscores_ok ==
            \A i \in 1..Len(body) :
                body[i] = "_" => /\ i > 1
                                 /\ i < Len(body)
                                 /\ IsDigit(body[i - 1])
                                 /\ IsDigit(body[i + 1])
        plain == SelectSeq(body, LAMBDA c : c # "_")
        es == { i \in 1..Len(plain) : plain[i] = "e" }
        epos == IF es = {} THEN Len(plain) + 1 ELSE CHOOSE i \in es : TRUE
        mantissa == SubSeq(plain, 1, epos - 1)
        exponent == SubSeq(plain, epos + 1, Len(plain))
        exp_signed == exponent # <<>> /\ exponent[1] \in {"+", "-"}
        exp_digits == IF exp_signed THEN Tail(exponent) ELSE exponent
        dots == { i \in 1..Len(mantissa) : mantissa[i] = "." }
        dot == IF dots = {} THEN Len(mantissa) + 1 ELSE CHOOSE i \in dots : TRUE
        int_part == SubSeq(mantissa, 1, dot - 1)
        frac_part == SubSeq(mantissa, dot + 1, Len(mantissa))
        valid ==
            /\ underscores_ok
            /\ Cardinality(es) <= 1
            /\ Cardinality(dots) <= 1
            /\ \A i \in 1..Len(int_part) : IsDigit(int_part[i])
            /\ \A i \in 1..Len(frac_part) : IsDigit(frac_part[i])
            /\ int_part \o frac_part # <<>>
            /\ es # {} => /\ exp_digits # <<>>
                          /\ \A i \in 1..Len(exp_digits) : IsDigit(exp_digits[i])
        magnitude == IntVal(int_part \o frac_part)
        exp_value == IF exp_signed /\ exponent[1] = "-"
                     THEN 0 - IntVal(exp_digits) ELSE IntVal(exp_digits)
    IN  IF body \in { <<"i","n","f">>, <<"i","n","f","i","n","i","t","y">> }
        THEN Float(IF negative THEN "-inf" ELSE "inf", 0, 0)
        ELSE IF body = <<"n","a","n">>
        THEN Float("nan", 0, 0)
        ELSE IF valid
        THEN LET v == Normal(IF negative THEN 0 - magnitude ELSE magnitude,
                             exp_value - Len(frac_part))
             IN  Float("finite", v.m, v.e)
        ELSE ValueError

\* max(0.0, min(1.0, score)): min keeps 1.0 against nan and inf
clamp(f) ==
    CASE f.kind \in {"nan", "inf"} -> One
      [] f.kind = "-inf" -> Zero
      [] OTHER -> IF f.m < 0 THEN Zero
                  ELSE IF GreaterThanOne(Dec(f.m, f.e)) THEN One
                  ELSE Dec(f.m, f.e)

\* The digits that follow position i
RECURSIVE digit_run(_, _)
digit_run(s, i) ==
    IF i <= Len(s) /\ IsDigit(s[i]) THEN <<s[i]>> \o digit_run(s, i + 1) ELSE <<>>

NoMatch == [found |-> FALSE, value |-> Zero]
Match(v) == [found |-> TRUE, value |-> v]

\* What the pattern 0\.\d+|1\.0+|0|1 matches at position i, as float
match_at(s, i) ==
    IF s[i] = "0" /\ i + 2 <= Len(s) /\ s[i + 1] = "." /\ IsDigit(s[i + 2])
    THEN LET d == digit_run(s, i + 2) IN Match(Normal(IntVal(d), 0 - Len(d)))
    ELSE IF s[i] = "1" /\ i + 2 <= Len(s) /\ s[i + 1] = "." /\ s[i + 2] = "0"
    THEN Match(One)
    ELSE IF s[i] = "0" THEN Match(Zero)
    ELSE IF s[i] = "1" THEN Match(One)
    ELSE NoMatch

\* float(re.findall(pattern, s)[0]), or no match at all
first_number(s) ==
    LET at == { i \in 1..Len(s) : match_at(s, i).found }
    IN  IF at = {} THEN NoMatch
        ELSE match_at(s, CHOOSE i \in at : \A j \in at : i <= j)

\* What the outbound call of one chunk meets: requests.post raises, a
\* status other than 200, a 200 without choices, or a 200 with content
ApiReply(kind, content) == [kind |-> kind, content |-> content]

\* _call_deepseek_api: the stripped content, or None
_call_deepseek_api(reply) ==
    IF reply.kind = "ok"
    THEN [is_none |-> FALSE, text |-> strip(reply.content)]
    ELSE [is_none |-> TRUE, text |-> <<>>]

\* The default score 0.5, in tenths
neutral_score == 5

\* The score of a chunk whose task has not returned
NoScore == Dec(0 - 1, 0)

\* Mutant of _score_single_chunk: the default score is 0
_score_single_chunk_zero(reply) ==
    LET response == _call_deepseek_api(reply)
    IN  IF response.is_none \/ response.text = <<>>
        THEN Zero
        ELSE LET f == py_float(strip(response.text))
                 n == first_number(strip(response.text))
             IN  IF f.ok THEN clamp(f)
                 ELSE IF n.found THEN n.value ELSE Zero

\* _score_single_chunk: float of the response clamped to [0, 1], else the
\* first number the pattern finds in it, else 0.5; nothing is raised
_score_single_chunk(reply) ==
    LET response == _call_deepseek_api(reply)
    IN  IF response.is_none \/ response.text = <<>>
        THEN Tenths(neutral_score)
        ELSE LET f == py_float(strip(response.text))
                 n == first_number(strip(response.text))
             IN  IF f.ok THEN clamp(f)
                 ELSE IF n.found THEN n.value ELSE Tenths(neutral_score)

\* Mutant of _create_batches: one batch of everything
_create_batches_single(n, batch_size) ==
    IF n = 0 THEN <<>> ELSE << [j \in 1..n |-> j] >>

\* _create_batches: items[i:i + batch_size] for i in range(0, n, batch_size),
\* here over the indices 1..n of the chunks
_create_batches(n, batch_size) ==
    [b \in 1..((n + batch_size - 1) \div batch_size) |->
        [j \in 1..Min(batch_size, n - (b - 1) * batch_size) |->
            (b - 1) * batch_size + j]]

\* The chunks of the batch being gathered
Batch == IF call.b \in DOMAIN call.batches
         THEN { call.batches[call.b][j] : j \in DOMAIN call.batches[call.b] }
         ELSE {}

\* _ai_relevance_scoring is called: no chunks, return []; else split into
\* batches of max_concurrent and turn to the first
AiRelevanceScoring(env) ==
    /\ call = NoCall
    /\ call' = [pc |-> IF env = <<>> THEN "scored" ELSE "gather",
                env |-> env,
                batches |-> _create_batches(Len(env), max_concurrent),
                b |-> 1,
                started |-> {},
                in_flight |-> {},
                results |-> [i \in 1..Len(env) |-> NoScore],
                requests |-> [i \in 1..Len(env) |-> 0],
                all_scores |-> <<>>]
    /\ resp' = NoResp
    /\ UNCHANGED <<docVars, convVars, legacyVars, session>>

\* asyncio.gather runs the tasks of the batch in order; each sends its one
\* request from the executor and is suspended until the reply is there
StartCall ==
    /\ call.pc = "gather"
    /\ Batch \ call.started # {}
    /\ LET i == CHOOSE x \in Batch \ call.started :
                    \A y \in Batch \ call.started : x <= y
       IN  call' = [call EXCEPT !.started = @ \cup {i},
                                !.in_flight = @ \cup {i},
                                !.requests[i] = @ + 1]
    /\ resp' = NoResp
    /\ UNCHANGED <<docVars, convVars, legacyVars, session>>

\* The reply of one request arrives, in any order: the task returns its score
CompleteCall(i) ==
    /\ call.pc = "gather"
    /\ i \in call.in_flight
    /\ call' = [call EXCEPT !.in_flight = @ \ {i},
                            !.results[i] = _score_single_chunk(call.env[i])]
    /\ resp' = NoResp
    /\ UNCHANGED <<docVars, convVars, legacyVars, session>>

\* gather returns the scores in task order; they are appended to
\* all_scores; after asyncio.sleep(0.1) the next batch, or the return
JoinBatch ==
    /\ call.pc = "gather"
    /\ Batch \subseteq call.started
    /\ call.in_flight = {}
    /\ LET batch == call.batches[call.b]
           processed_scores == [j \in DOMAIN batch |-> call.results[batch[j]]]
       IN  call' = [call EXCEPT !.all_scores = @ \o processed_scores,
                                !.b = @ + 1,
                                !.pc = IF call.b = Len(call.batches)
                                       THEN "scored" ELSE "gather"]
    /\ resp' = NoResp
    /\ UNCHANGED <<docVars, convVars, legacyVars, session>>

\* One direct call of _score_single_chunk
ScoreSingleChunk(reply) ==
    /\ call = NoCall
    /\ call' = [pc |-> "chunk_scored", reply |-> reply,
                result |-> _score_single_chunk(reply)]
    /\ resp' = NoResp
    /\ UNCHANGED <<docVars, convVars, legacyVars, session>>

\* The replies single chunks are scored with; U+00A0 is the no-break
\* space, U+001F a separator str.strip() drops and float() does not, U+0663
\* and U+0665 the Arabic-Indic digits three and five
ScoreReplies ==
    { ApiReply("exception", <<>>), ApiReply("status", <<>>),
      ApiReply("no_choices", <<>>) }
    \cup { ApiReply("ok", c) :
             c \in { <<>>, <<" ">>, <<"0", ".", "8">>, <<" ", "0", ".", "8", "\n">>,
                     <<"0">>, <<"1">>, <<"1", ".", "0">>, <<"2">>, <<"-", "1">>,
                     <<"1", "2", ".", "5">>, <<".", "5">>, <<"1", ".">>,
                     <<"h", "i", "g", "h">>, <<"7", "/", "9">>,
                     <<"s", "c", "o", "r", "e", ":", " ", "0", ".", "8">>,
                     <<"1", ".", "0", " ", "!">>,
                     <<"e", "r", "r", "o", "r", " ", "5", "0", "0">>,
                     <<"c", "h", "u", "n", "k", " ", "1">>,
                     <<"0", ".", "x">>, <<".">>, <<"0", ".", "8", ".", "1">>,
                     <<"0", ".", "8", "5">>, <<"1", "e", "-", "1">>,
                     <<"5", "E", "-", "1">>, <<"1", "e", "0">>, <<"1", "e">>,
                     <<"n", "a", "n">>, <<"i", "n", "f">>, <<"-", "i", "n", "f">>,
                     <<"I", "n", "f", "i", "n", "i", "t", "y">>,
                     <<"0", "_", "5">>, <<"1", "_", "0">>, <<"_", "1">>,
                     <<"a", "b", "o", "u", "t", " ", "0", ".", "7", "5">>,
                     <<"2", "\r">>, <<"0", ".", "8", "\r", "\n">>,
                     <<"U+00A0", "2">>, <<"U+0663">>, <<"0", ".", "U+0665">>,
                     <<"1", "U+001F">>,
                     <<"s", "c", "o", "r", "e", " ", "0", ".", "U+0663", "U+0665">> } }

\* The replies the chunks of a scoring run meet
BatchReplies ==
    { ApiReply("exception", <<>>), ApiReply("ok", <<"0", ".", "8">>),
      ApiReply("ok", <<"c", "h", "u", "n", "k", " ", "1">>) }

ScoringEnvs == UNION { [1..n -> BatchReplies] : n \in 0..MaxChunks }

NextScoring ==
    \/ \E env \in ScoringEnvs : AiRelevanceScoring(env)
    \/ StartCall
    \/ \E i \in 1..MaxChunks : CompleteCall(i)
    \/ JoinBatch
    \/ \E reply \in ScoreReplies : ScoreSingleChunk(reply)

SpecScoring == InitDocs /\ [][NextScoring]_vars

----------------------------------------------------------------------------
(* backend/app/services/parser/document_parser.py: _extract_sections *)

\* The alternatives of the patterns 2 to 8 of section_patterns
section_names ==
    { <<"A", "b", "s", "t", "r", "a", "c", "t">>,
      <<"I", "n", "t", "r", "o", "d", "u", "c", "t", "i", "o", "n">>,
      <<"M", "e", "t", "h", "o", "d">>,
      <<"R", "e", "s", "u", "l", "t">>,
      <<"D", "i", "s", "c", "u", "s", "s", "i", "o", "n">>,
      <<"C", "o", "n", "c", "l", "u", "s", "i", "o", "n">>,
      <<"R", "e", "f", "e", "r", "e", "n", "c", "e">>,
      <<"U+6458", "U+8981">>,
      <<"U+5F15", "U+8A00">>,
      <<"U+524D", "U+8A00">>,
      <<"U+65B9", "U+6CD5">>,
      <<"U+5B9E", "U+9A8C", "U+65B9", "U+6CD5">>,
      <<"U+6750", "U+6599", "U+4E0E", "U+65B9", "U+6CD5">>,
      <<"U+7ED3", "U+679C">>,
      <<"U+5B9E", "U+9A8C", "U+7ED3", "U+679C">>,
      <<"U+8BA8", "U+8BBA">>,
      <<"U+7ED3", "U+8BBA">>,
      <<"U+53C2", "U+8003", "U+6587", "U+732E">> }

\* re.match(pattern, line, re.IGNORECASE) for some pattern of
\* section_patterns: ^(\d+\.?\s*[^\n]+)$ matches a line of two or more
\* characters that begins with a digit (a line holds no "\n"); the other
\* patterns match a line that is one of the section names, whatever the case
is_section_header(line) ==
    \/ Len(line) >= 2 /\ IsDigit(line[1])
    \/ \E name \in section_names : matches_ignorecase(line, name)

RECURSIVE join_lines(_)
\* '\n'.join(lines)
join_lines(lines) ==
    IF lines = <<>> THEN <<>>
    ELSE IF Len(lines) = 1 THEN lines[1]
    ELSE lines[1] \o <<"\n">> \o join_lines(Tail(lines))

\* The Section that is appended when a section is closed: only if a title
\* is set and content was collected
close_section(sections, current_section, current_content) ==
    IF current_section # <<>> /\ current_content # <<>>
    THEN Append(sections,
                [id |-> Len(sections), title |-> current_section,
                 content |-> join_lines(current_content)])
    ELSE sections

RECURSIVE extract_loop(_, _, _, _, _)
\* for line in lines, from line i on, and the last section after the loop;
\* current_section None is written <<>>
extract_loop(lines, i, sections, current_section, current_content) ==
    IF i > Len(lines)
    THEN close_section(sections, current_section, current_content)
    ELSE LET line == strip(lines[i])
         IN  IF line = <<>>
             THEN extract_loop(lines, i + 1, sections, current_section, current_content)
             ELSE IF is_section_header(line)
             THEN extract_loop(lines, i + 1,
                               close_section(sections, current_section, current_content),
                               line, <<>>)
             ELSE extract_loop(lines, i + 1, sections, current_section,
                               Append(current_content, line))

\* _extract_sections(text), lines being text.split('\n')
_extract_sections(lines) == extract_loop(lines, 1, <<>>, <<>>, <<>>)

\* The lines the texts are made of; the last two are the Chinese header
\* for "Result" and "Result" written with a long s and a no-break space
RawLines ==
    { <<"A", "b", "s", "t", "r", "a", "c", "t">>,
      <<"R", "E", "S", "U", "L", "T">>,
      <<"1", ".", " ", "A">>,
      <<"3", " ", "m", "i", "c", "e">>,
      <<"5">>,
      <<" ", "b", " ">>,
      <<"x", " ", "y">>,
      <<>>,
      <<" ", " ">>,
      <<"R", "e", "s", "u", "l", "t", "s">>,
      <<"U+7ED3", "U+679C">>,
      <<"R", "e", "U+017F", "u", "l", "t", "U+00A0">> }

Texts == UNION { [1..n -> RawLines] : n \in 0..MaxLines }

\* One call of _extract_sections
ExtractSections(lines) ==
    /\ call = NoCall
    /\ call' = [pc |-> "sectioned", lines |-> lines,
                result |-> _extract_sections(lines)]
    /\ resp' = NoResp
    /\ UNCHANGED <<docVars, convVars, legacyVars, session>>

NextSections == \E lines \in Texts : ExtractSections(lines)

SpecSections == InitDocs /\ [][NextSections]_vars

----------------------------------------------------------------------------
(* The frontend: qa_tab *)

\* "if previous_doc_id != doc_id": the reset before st.rerun()
document_changed(s, doc_id) ==
    [s EXCEPT !.qa_selected_doc_id = doc_id,
              !.qa_result = NoQaResult,
              !.qa_question = "",
              !.current_conversation_id = 0,
              !.show_history_sidebar = FALSE,
              !.view_conversation_id = 0,
              !.conversations = {},
              !.conversation_detail = {}]

\* The button "show_history"
toggle_history(s) ==
    [s EXCEPT !.show_history_sidebar = ~s.show_history_sidebar,
              !.hide_qa_interface = ~s.show_history_sidebar]

\* The button "new_conversation"
new_conversation(s) ==
    [s EXCEPT !.current_conversation_id = 0,
              !.qa_result = NoQaResult,
              !.qa_question = "",
              !.show_history_sidebar = FALSE,
              !.hide_qa_interface = FALSE]

\* The history block fills conversations_<doc_id> when it is rendered
load_history(s, doc_id) ==
    IF s.show_history_sidebar
    THEN [s EXCEPT !.conversations = @ \cup {doc_id}]
    ELSE s

\* The button "view_conv_detail"; detail = 0 is a failed request (None)
view_detail(s, detail) ==
    IF detail # 0 THEN [s EXCEPT !.showing_conv_detail = detail] ELSE s

\* The button "continue_conv"
continue_conversation(s, selected_conv_id) ==
    [s EXCEPT !.current_conversation_id = selected_conv_id,
              !.qa_result = NoQaResult,
              !.qa_question = "",
              !.show_history_sidebar = FALSE,
              !.hide_qa_interface = FALSE]

\* The button "close_detail"
close_detail(s) == [s EXCEPT !.showing_conv_detail = 0]

\* The button "delete_conv": the next run offers "confirm_delete_conv"
delete_conv(s, selected_conv_id) ==
    [s EXCEPT !.delete_confirm = @ \cup {selected_conv_id}]

\* The button "confirm_delete_conv"; deleted: DELETE /qa/conversation/<id>
\* succeeded.  The cached list of conversations is not loaded again.
confirm_delete_conv(s, selected_conv_id, deleted) ==
    IF deleted
    THEN [s EXCEPT !.current_conversation_id =
                       IF @ = selected_conv_id THEN 0 ELSE @,
                   !.delete_confirm = @ \ {selected_conv_id}]
    ELSE s

\* on_change of "qa_suggestion_select": the chosen suggestion fills the
\* question, the placeholder option changes nothing
_apply_suggestion(s, sel) ==
    IF sel = suggestion_placeholder
    THEN s
    ELSE [s EXCEPT !.qa_suggestion_selected = sel, !.qa_question = sel]

\* A button "followup_btn_<doc_id>_<i>_persistent" under the answer
followup(s, question) == [s EXCEPT !.qa_question = question]

\* The form button "clear"
clear(s) == [s EXCEPT !.qa_question = "", !.qa_result = NoQaResult]

\* The form button "submit" with a non-blank question; qa_result is the
\* reply of POST /qa/ask, NoQaResult when the request failed (st.stop())
submit(s, question, qa_result) ==
    IF qa_result = NoQaResult
    THEN s
    ELSE [s EXCEPT !.qa_question = question,
                   !.qa_result = qa_result,
                   !.current_conversation_id =
                       IF qa_result.conversation_id # 0
                       THEN qa_result.conversation_id ELSE @]

\* The suggestions and the ask form are rendered
ask_form_shown(s) == ~s.hide_qa_interface

\* The conversation detail rendered by the history block (0: none)
detail_shown(s) ==
    IF s.show_history_sidebar THEN s.showing_conv_detail ELSE 0

\* What one finished script run of qa_tab leaves on the page
QaPage(event, s) ==
    Resp("qa_tab", s.qa_selected_doc_id, 0,
         [event |-> event,
          ask_form |-> ask_form_shown(s),
          detail |-> detail_shown(s)])

\* The tab has been rendered once: a document is selected
QaOpen == session.qa_selected_doc_id # 0

UiStep(event, s) ==
    /\ session' = s
    /\ resp' = QaPage(event, s)
    /\ UNCHANGED <<docVars, convVars, legacyVars, call>>

\* The user picks doc_id in "qa_doc_selectbox" (the first run of a session
\* picks the first document): reset, st.rerun(), and the run after it
QaSelectDocument(doc_id) ==
    /\ doc_id # session.qa_selected_doc_id
    /\ ~QaOpen => doc_id = 1
    /\ UiStep("select_document",
              load_history(document_changed(session, doc_id), doc_id))

ToggleHistory ==
    /\ QaOpen
    /\ UiStep("show_history",
              load_history(toggle_history(session),
                           session.qa_selected_doc_id))

NewConversation ==
    /\ QaOpen
    /\ UiStep("new_conversation", new_conversation(session))

\* detail is the conversation of the selected document, or 0 when
\* load_conversation_detail failed
ViewDetail(detail) ==
    /\ QaOpen
    /\ session.show_history_sidebar
    /\ detail \in {0, session.qa_selected_doc_id}
    /\ UiStep("view_conv_detail", view_detail(session, detail))

ContinueConversation ==
    /\ QaOpen
    /\ session.show_history_sidebar
    /\ UiStep("continue_conv",
              continue_conversation(session, session.qa_selected_doc_id))

CloseDetail ==
    /\ QaOpen
    /\ detail_shown(session) # 0
    /\ UiStep("close_detail", close_detail(session))

\* The delete button of the conversation selected in the history block
DeleteConv ==
    /\ QaOpen
    /\ session.show_history_sidebar
    /\ session.qa_selected_doc_id \notin session.delete_confirm
    /\ UiStep("delete_conv", delete_conv(session, session.qa_selected_doc_id))

\* The confirm button, which a run renders in place of the delete button
\* once the flag is set
ConfirmDeleteConv(deleted) ==
    /\ QaOpen
    /\ session.show_history_sidebar
    /\ session.qa_selected_doc_id \in session.delete_confirm
    /\ UiStep("confirm_delete_conv",
              confirm_delete_conv(session, session.qa_selected_doc_id, deleted))

\* The user picks an option of the suggestions selectbox, which is
\* rendered with the ask form
ApplySuggestion(sel) ==
    /\ QaOpen
    /\ ask_form_shown(session)
    /\ UiStep("apply_suggestion", _apply_suggestion(session, sel))

\* The user presses a follow-up question of the answer on the page
Followup(question) ==
    /\ QaOpen
    /\ session.qa_result # NoQaResult
    /\ UiStep("followup", followup(session, question))

\* The ask form is submitted; the backend continues the current
\* conversation or opens the one of the document
Submit(ok) ==
    /\ QaOpen
    /\ ask_form_shown(session)
    /\ LET d == session.qa_selected_doc_id
           c == IF session.current_conversation_id # 0
                THEN session.current_conversation_id ELSE d
       IN UiStep("submit",
                 submit(session, "q",
                        IF ok THEN QaResult(d, c) ELSE NoQaResult))

Clear ==
    /\ QaOpen
    /\ ask_form_shown(session)
    /\ UiStep("clear", clear(session))

----------------------------------------------------------------------------
(* The frontend: the custom summary of summarization_tab *)

generate_button_always(s) == TRUE

\* "if not st.session_state.custom_summary_generated": the generate button
\* is rendered, the regenerate and new-summary buttons otherwise
generate_button_shown(s) == ~s.custom_summary_generated

\* The button "generate_custom_summary"; ok: the POST returned a summary
generate(s, doc_id, ok) ==
    IF ok
    THEN [s EXCEPT !.custom_summary_result = CustomSummary(doc_id),
                   !.custom_summary_generated = TRUE]
    ELSE s

\* The buttons "regenerate_custom_summary" and "new_custom_summary"
reset_custom_summary(s) ==
    [s EXCEPT !.custom_summary_generated = FALSE,
              !.custom_summary_result = NoCustomSummary]

\* The custom view is rendered: the radio is on it and GET
\* /summaries/templates answered
custom_view(s, templates_ok) == s.summary_type = "custom" /\ templates_ok

\* "if st.session_state.custom_summary_result": the summary on the page
displayed_summary(s, templates_ok) ==
    IF custom_view(s, templates_ok)
    THEN s.custom_summary_result ELSE NoCustomSummary

\* What one finished script run of summarization_tab leaves on the page;
\* requested: POST /summaries/custom/<doc_id> was sent in this interaction
SummaryPage(event, s, templates_ok, requested) ==
    Resp("summary_tab", s.summary_doc, 0,
         [event |-> event,
          custom_view |-> custom_view(s, templates_ok),
          requested |-> requested,
          shown |-> displayed_summary(s, templates_ok)])

SummaryStep(event, s, templates_ok, requested) ==
    /\ session' = s
    /\ resp' = SummaryPage(event, s, templates_ok, requested)
    /\ UNCHANGED <<docVars, convVars, legacyVars, call>>

\* The user picks another document in the selectbox of the summary tab
SummarySelectDocument(doc_id, templates_ok) ==
    /\ doc_id # session.summary_doc
    /\ SummaryStep("select_document",
                   [session EXCEPT !.summary_doc = doc_id],
                   templates_ok, FALSE)

\* The user picks another summary type in the radio
SelectSummaryType(type, templates_ok) ==
    /\ type # session.summary_type
    /\ SummaryStep("select_type",
                   [session EXCEPT !.summary_type = type],
                   templates_ok, FALSE)

\* Any other interaction runs the script again (a template, a keyword)
Rerender(templates_ok) ==
    /\ session' = session
    /\ resp' = SummaryPage("rerender", session, templates_ok, FALSE)
    /\ UNCHANGED <<docVars, convVars, legacyVars, call>>

\* The generate button is pressed: it exists only in a rendered custom
\* view with a template or a keyword selected
GenerateCustomSummary(ok, templates_ok) ==
    /\ session.summary_type = "custom"
    /\ generate_button_shown(session)
    /\ SummaryStep("generate",
                   generate(session, session.summary_doc, ok),
                   templates_ok, TRUE)

RegenerateCustomSummary(templates_ok) ==
    /\ session.summary_type = "custom"
    /\ ~generate_button_shown(session)
    /\ SummaryStep("regenerate", reset_custom_summary(session),
                   templates_ok, FALSE)

NewCustomSummary(templates_ok) ==
    /\ session.summary_type = "custom"
    /\ ~generate_button_shown(session)
    /\ SummaryStep("new_summary", reset_custom_summary(session),
                   templates_ok, FALSE)

NextUi ==
    \/ \E d \in UiDocs : QaSelectDocument(d)
    \/ ToggleHistory
    \/ NewConversation
    \/ \E detail \in {0} \cup UiDocs : ViewDetail(detail)
    \/ ContinueConversation
    \/ CloseDetail
    \/ DeleteConv
    \/ \E deleted \in BOOLEAN : ConfirmDeleteConv(deleted)
    \/ \E sel \in UiSuggestions \cup {suggestion_placeholder} : ApplySuggestion(sel)
    \/ \E question \in UiFollowups : Followup(question)
    \/ \E ok \in BOOLEAN : Submit(ok)
    \/ Clear
    \/ \E d \in UiDocs, t \in BOOLEAN : SummarySelectDocument(d, t)
    \/ \E type \in UiSummaryTypes, t \in BOOLEAN : SelectSummaryType(type, t)
    \/ \E t \in BOOLEAN : Rerender(t)
    \/ \E ok \in BOOLEAN, t \in BOOLEAN : GenerateCustomSummary(ok, t)
    \/ \E t \in BOOLEAN : RegenerateCustomSummary(t)
    \/ \E t \in BOOLEAN : NewCustomSummary(t)

SpecUi == InitQA /\ [][NextUi]_vars

----------------------------------------------------------------------------
(* Properties *)

\* C1: when the parser fails on a document during the background task, the
\* persisted record ends the task with status FAILED and at least one
\* message in processing_errors.
C1_ParserFailureEndsFailed ==
    (resp.op = "process" /\ resp.info = "raises" /\ resp.id \in DOMAIN docs)
        => /\ docs[resp.id].status = "failed"
           /\ Len(docs[resp.id].processing_errors) >= 1

\* C2: an upload call holding a file of an unsupported extension, at any
\* position of the batch, is rejected with a 400 and leaves behind none of
\* the Document records or upload files it created.
C2_RejectedUploadLeavesNothing ==
    (resp.op = "upload"
       /\ \E i \in 1..Len(resp.info.files) :
             splitext_ext(Lower(resp.info.files[i])) \notin supported_extensions)
        => /\ resp.code = 400
           /\ \A j \in 1..Len(resp.info.uploaded_docs) :
                 /\ resp.info.uploaded_docs[j] \notin DOMAIN docs
                 /\ resp.info.uploaded_docs[j] \notin files

\* C3: reprocess of an existing document persists it as UPLOADED with no
\* processing errors, touches no other record and schedules exactly one new
\* task, which has not started when the call returns; reprocess of an id
\* without record answers 404 and changes no record and schedules nothing.
C3_ReprocessResets ==
    [][ resp'.op = "reprocess" =>
          IF resp'.id \in DOMAIN docs
          THEN /\ resp'.code = 200
               /\ DOMAIN docs' = DOMAIN docs
               /\ docs'[resp'.id].status = "uploaded"
               /\ docs'[resp'.id].processing_errors = <<>>
               /\ \A x \in DOMAIN docs \ {resp'.id} : docs'[x] = docs[x]
               /\ tasks' = [tasks EXCEPT ![resp'.id] = @ + 1]
               /\ bg'.pc = "idle"
          ELSE /\ resp'.code = 404
               /\ docs' = docs
               /\ tasks' = tasks ]_vars

\* C3 witness: a document whose parse had left an error was reprocessed
C3_Witness ==
    /\ resp.op = "reprocess"
    /\ resp.code = 200
    /\ Len(resp.info.processing_errors) >= 1
    /\ docs[resp.id].status = "uploaded"
    /\ docs[resp.id].processing_errors = <<>>
    /\ tasks[resp.id] >= 1

\* C4: ask answers 404 for a missing document, 400 for a document whose
\* status is not parsed/extracted/completed, 404 for a conversation_id that
\* does not resolve, and no rejected ask creates or changes a conversation
\* or the legacy history.
C4_AskRejections ==
    [][ resp'.op = "ask" =>
          /\ resp'.code =
                IF resp'.id \notin DOMAIN docs THEN 404
                ELSE IF docs[resp'.id].status \notin {"parsed", "extracted", "completed"}
                     THEN 400
                     ELSE IF resp'.info # 0 /\ resp'.info \notin DOMAIN convs
                          THEN 404
                          ELSE 0
          /\ resp'.code # 0 =>
                /\ convs' = convs
                /\ history' = history
                /\ last_access' = last_access ]_vars

\* C4 witness: an ask on an unprocessed document was refused while a
\* conversation and a legacy history existed
C4_Witness ==
    /\ resp.op = "ask"
    /\ resp.code = 400
    /\ DOMAIN convs # {}
    /\ DOMAIN history # {}

\* C5: an ask that returns successfully returns a conversation_id that
\* resolves to a persisted conversation whose last entry holds the asked
\* question and the returned answer; without a conversation_id in the
\* request that conversation holds exactly one entry.
C5_AskReturnsPersistedTurn ==
    (resp.op = "ask_done" /\ resp.code = 200)
        => /\ resp.info.conversation_id \in DOMAIN convs
           /\ LET entries == convs[resp.info.conversation_id].entries
              IN  /\ Len(entries) >= 1
                  /\ entries[Len(entries)].question = resp.info.question
                  /\ entries[Len(entries)].answer = resp.info.answer
                  /\ resp.info.created => Len(entries) = 1

\* C6: in every persisted conversation total_questions is the number of
\* entries.
C6_TotalQuestionsCountsEntries ==
    \A c \in DOMAIN convs : convs[c].total_questions = Len(convs[c].entries)

\* C6 witness: an archived conversation with two entries
C6_Witness ==
    \E c \in DOMAIN convs :
        /\ Len(convs[c].entries) = 2
        /\ convs[c].status = "archived"

\* The title the first question q gives: q when it has at most 50
\* characters, else its first 50 characters and "..."
TitleOf(q) ==
    IF Len(q) > 50 THEN SubSeq(q, 1, 50) \o <<".", ".", ".">> ELSE q

\* C7: the title of a conversation with entries is the one its first
\* appended question gives, and no step changes the title of a conversation
\* that already has an entry.
C7_TitleFromFirstQuestion ==
    [][ \A c \in DOMAIN convs' :
          Len(convs'[c].entries) >= 1 =>
             /\ convs'[c].title = TitleOf(QuestionText[convs'[c].entries[1].question])
             /\ (c \in DOMAIN convs /\ Len(convs[c].entries) >= 1)
                   => convs'[c].title = convs[c].title ]_vars

\* C7 witness: a second, different question was appended to a conversation
\* opened with the 51-character question
C7_Witness ==
    \E c \in DOMAIN convs :
        /\ Len(convs[c].entries) = 2
        /\ convs[c].entries[1].question = "q51"
        /\ convs[c].entries[2].question = "q50"
        /\ Len(convs[c].title) = 53

\* C8: delete of an id without record answers 404 and changes nothing;
\* delete of an existing document removes its record and nothing else: every
\* other record, every upload file and every conversation stay as they were.
C8_DeleteRemovesOneRecord ==
    [][ resp'.op = "delete" =>
          IF resp'.id \in DOMAIN docs
          THEN /\ resp'.code = 200
               /\ DOMAIN docs' = DOMAIN docs \ {resp'.id}
               /\ \A x \in DOMAIN docs' : docs'[x] = docs[x]
               /\ convs' = convs
               /\ files' = files
          ELSE /\ resp'.code = 404
               /\ docs' = docs
               /\ convs' = convs
               /\ files' = files ]_vars

\* C8 witness: a document that a conversation refers to was deleted while
\* another document existed
C8_Witness ==
    /\ resp.op = "delete"
    /\ resp.code = 200
    /\ DOMAIN docs # {}
    /\ \E c \in DOMAIN convs :
          convs[c].document_id = resp.id /\ Len(convs[c].entries) >= 1

IsHeading(line) == line[1] = "## Question "

IsQuestionLine(line) == line[1] = "**question**: "

\* C9: for a conversation with N entries the markdown export holds exactly
\* N question blocks, numbered 1..N and in entry order, and the file name
\* conversation_<id>.md; the json export and the export in any other format
\* are the full record, with total_questions = N; an export changes no
\* conversation; the export of an id without record returns nothing.  The
\* route refuses the other formats, so that part is stated of the storage
\* method on every stored conversation.
C9_Export ==
    [][ /\ \A c \in DOMAIN convs, format \in ExportFormats \ {"markdown"} :
              export_conversation(convs, c, format) = convs[c]
        /\ (resp'.op = "export" /\ resp'.code # 422) =>
          /\ convs' = convs
          /\ IF resp'.id \notin DOMAIN convs
             THEN resp'.info.data = <<>>
             ELSE LET conversation == convs[resp'.id]
                      N == Len(conversation.entries)
                      data == resp'.info.data
                  IN  IF resp'.info.format = "markdown"
                      THEN /\ SelectSeq(data.content, IsHeading)
                                = [i \in 1..N |-> <<"## Question ", ToString(i)>>]
                           /\ Len(SelectSeq(data.content, IsQuestionLine)) = N
                           /\ data.filename = <<"conversation_", resp'.id, ".md">>
                      ELSE /\ data = conversation
                           /\ data.total_questions = N ]_vars

\* C10: answer_question never raises, and when a step of it fails the
\* response has confidence 0, no sources, type FACTUAL and an answer that
\* embeds the error text.
C10_AnswerNeverRaises ==
    call.pc = "returned" =>
        /\ ~call.result.raised
        /\ call.env.fault # "none" =>
              /\ call.result.confidence = <<0, 1>>
              /\ call.result.sources = <<>>
              /\ call.result.question_type = "factual"
              /\ \E i \in 1..Len(call.result.answer) :
                    call.result.answer[i] = call.env.err

\* C10 witness: the LLM call failed on a question that classifies as
\* analytical, with chunks retrieved
C10_Witness ==
    /\ call.pc = "returned"
    /\ call.env.fault = "llm"
    /\ call.env.n = 2
    /\ call.question = "q50"
    /\ call.result.question_type = "factual"
    /\ call.result.confidence = <<0, 1>>

\* The answer holds one of the five low-confidence words
Hedged(answer) ==
    \E i \in 1..Len(answer) :
        answer[i] \in {"weizhaodao", "meiyou", "wufa", "buqingchu", "buqueding"}

\* C11: an answered question has confidence 0 and no sources when no chunk
\* was retrieved; with n >= 1 chunks the confidence c is min(n/3, 1), or half
\* of that when the answer holds a low-confidence word, and 0 <= c <= 1.
C11_Confidence ==
    (call.pc = "returned" /\ call.env.fault = "none") =>
        LET n == call.env.n
            c == call.result.confidence
            base == IF n < 3 THEN n ELSE 3
        IN  /\ n = 0 => (c[1] = 0 /\ call.result.sources = <<>>)
            /\ n >= 1 =>
                  IF Hedged(call.result.answer)
                  THEN 2 * c[1] * 3 = base * c[2]
                  ELSE c[1] * 3 = base * c[2]
            /\ c[2] > 0
            /\ 0 <= c[1]
            /\ c[1] <= c[2]

\* C11 witness: four chunks and a hedging answer give one half
C11_Witness ==
    /\ call.pc = "returned"
    /\ call.env.fault = "none"
    /\ call.env.n = 4
    /\ Hedged(call.result.answer)
    /\ 2 * call.result.confidence[1] = call.result.confidence[2]

\* C12: a custom-summary request answered with a summary yields a keyword
\* summary when only keywords are given, a template summary when only a
\* template is given, a summary whose prompt is built from both when both
\* are given, and the generic custom summary when neither is given.
C12_CustomSummaryDispatch ==
    (resp.op = "summary" /\ resp.code = 200 /\ resp.info.summary_type = "custom") =>
        LET kw == resp.info.keywords # <<>>
            tp == resp.info.template # ""
            result == resp.info.result
        IN  /\ (kw /\ ~tp) => result.type = "keyword_summary"
            /\ (~kw /\ tp) => result.type = "template_summary"
            /\ (kw /\ tp) => /\ result.prompt_keywords = resp.info.keywords
                             /\ result.prompt_template = resp.info.template
            /\ (~kw /\ ~tp) => result.type = "custom_summary"

\* C13: DELETE /qa/conversation/{document_id} for an existing document
\* clears its legacy history, so the GET /qa/conversation/{document_id}
\* that follows it returns an empty history.
C13_ClearThenGetEmpty ==
    [][ ( /\ resp.op = "clear_history"
          /\ resp.id \in DOMAIN docs
          /\ resp'.op = "get_history"
          /\ resp'.id = resp.id )
        => (resp'.code = 200 /\ resp'.info = <<>>) ]_vars

\* Every result carries the ai_score and the preliminary_score of its own
\* chunk and the final score ai_score * 0.7 + (preliminary_score / 100.0) *
\* 0.3 as floating point computes it, which is 0.7 * ai_score + 0.3 *
\* preliminary_score / 100 to the millionth (70 * the tenths of ai_score +
\* 3 * preliminary_score, in thousandths); the results are in non-increasing
\* order of final score
ScoredAndRanked(c) ==
    LET result == c.result
    IN  /\ \A r \in 1..Len(result) :
              \E i \in 1..Len(c.chunks) :
                 /\ i <= Len(c.ai_scores)
                 /\ result[r].section_id = c.chunks[i].section_id
                 /\ result[r].ai_score = c.ai_scores[i]
                 /\ result[r].preliminary_score = c.chunks[i].preliminary_score
                 /\ result[r].score
                       = DAdd(DMul(c.ai_scores[i], FromDecimal(Dec(7, 0 - 1))),
                              DMul(DDivNat(c.chunks[i].preliminary_score, 100),
                                   FromDecimal(Dec(3, 0 - 1))))
                 /\ DScaled(result[r].score, 6)
                       = 1000 * (70 * DScaled(c.ai_scores[i], 1)
                                 + 3 * DScaled(c.chunks[i].preliminary_score, 0))
        /\ \A r \in 1..(Len(result) - 1) :
              DGeq(result[r].score, result[r + 1].score)

\* C14 (as stated): every result of _combine_scores_and_rank carries the
\* scores of its own chunk and the final score 0.7 * ai_score + 0.3 *
\* preliminary_score / 100, and the list is in non-increasing order of
\* final score and holds at most top_k results.
C14_AtMostTopK ==
    call.pc = "ranked" =>
        /\ ScoredAndRanked(call)
        /\ Len(call.result) <= call.top_k

\* C14 (amended): every result carries the scores of its own chunk and
\* that final score, the list is in non-increasing order of final score,
\* and it holds at most top_k results when top_k is not negative; for a
\* negative top_k it holds the ranked results without the last -top_k.
C14_CombineScoresAndRank ==
    call.pc = "ranked" =>
        LET scored == Cardinality({ i \in 1..Len(call.chunks) : i <= Len(call.ai_scores) })
        IN  /\ ScoredAndRanked(call)
            /\ call.top_k >= 0 => Len(call.result) <= call.top_k
            /\ call.top_k < 0 =>
                  Len(call.result)
                     = (IF scored + call.top_k > 0 THEN scored + call.top_k ELSE 0)

\* C14 witness: three candidates cut to two results by top_k = -1, the
\* second candidate (ai_score 0.8, preliminary_score 50, final score 0.71)
\* ranked first
C14_Witness ==
    /\ call.pc = "ranked"
    /\ Len(call.chunks) = 3
    /\ call.top_k = 0 - 1
    /\ Len(call.result) = 2
    /\ call.result[1].section_id = 2
    /\ call.result[1].ai_score = FromDecimal(Dec(8, 0 - 1))
    /\ call.result[1].preliminary_score = FromDecimal(Dec(50, 0))
    /\ call.result[1].score = FromDecimal(Dec(71, 0 - 2))

\* C15: analyze_paper never raises; when generate_abstract or
\* extract_key_points fails the result has analysis_complete = False,
\* abstract = None, key_points = [] and error = the exception message; when
\* both succeed analysis_complete = True and error = None.
C15_AnalyzePaper ==
    call.pc = "analyzed" =>
        /\ ~call.result.raised
        /\ IF call.env.abstract_fault \/ call.env.key_points_fault
           THEN /\ call.result.analysis_complete = FALSE
                /\ call.result.abstract = "None"
                /\ call.result.key_points = <<>>
                /\ call.result.error = call.env.err
           ELSE /\ call.result.analysis_complete = TRUE
                /\ call.result.error = "None"

\* C15 witness: the abstract was generated and the key points failed
C15_Witness ==
    /\ call.pc = "analyzed"
    /\ ~call.env.abstract_fault
    /\ call.env.key_points_fault
    /\ call.result.requests = 2
    /\ call.result.abstract = "None"
    /\ call.result.error = "API Error"

\* The key is absent, empty or made of whitespace only
BlankKey(key) ==
    key.is_none \/ \A i \in 1..Len(key.value) : key.value[i] \in {" ", "\t", "\n"}

\* C16: with a blank API key the construction of DeepLitAnalyzer raises
\* ValueError and the analyze and summarize commands print an error and
\* issue no request; with a non-blank key the construction succeeds.
C16_BlankKeyNoRequest ==
    /\ call.pc = "constructed" =>
          (call.raised = IF BlankKey(call.api_key) THEN "ValueError" ELSE "None")
    /\ (call.pc \in {"cli_analyze", "cli_summarize"} /\ BlankKey(call.api_key)) =>
          /\ call.result.printed \in {"api key not configured", "error"}
          /\ call.result.requests = 0
          /\ ~call.result.constructed

\* C16 witness: analyze was run on a readable paper with a key of whitespace
C16_Witness ==
    /\ call.pc = "cli_analyze"
    /\ call.env.readable
    /\ ~call.api_key.is_none
    /\ Len(call.api_key.value) = 3
    /\ call.result.printed = "api key not configured"
    /\ call.result.requests = 0

\* The state s without the legacy history, which no step of the
\* conversations reads
WithoutLegacy(s) == [s EXCEPT !.history = <<>>, !.last_access = <<>>]

\* The steps of the conversation API, each with its input: a request to ask
\* arrives, a suspended ask is resumed with the LLM's outcome, a
\* conversation is archived or deleted, a document is deleted
ConversationSteps ==
    { <<"ask", x>> : x \in Clients \X DocIds \X AskQuestions \X (ConvIds \cup {0}) }
    \cup { <<"answer", x>> : x \in Clients \X AskEnvs }
    \cup { <<"archive", c>> : c \in ConvIds }
    \cup { <<"delete", c>> : c \in ConvIds }
    \cup { <<"delete_document", d>> : d \in DocIds }

\* The state the step leads to from s, which is s where the step cannot be
\* taken
AfterStep(s, step) ==
    LET x == step[2]
    IN  CASE step[1] = "ask" ->
               IF AskArrives(s, x[1], x[2], x[3], x[4])
               THEN WithoutLegacy(ask_question_start(s, x[1], x[2], x[3], x[4]).s)
               ELSE s
          [] step[1] = "answer" ->
               IF s.asks[x[1]].pc = "answering"
               THEN WithoutLegacy(ask_question_finish(s, x[1], x[2]).s)
               ELSE s
          [] step[1] = "archive" -> [s EXCEPT !.convs = archive_conversation(@, x)]
          [] step[1] = "delete" -> [s EXCEPT !.convs = delete_conversation(@, x)]
          [] step[1] = "delete_document" ->
               IF \/ ~DocExists(s.docs, x)
                  \/ Cardinality(DocIds \ DOMAIN s.docs) < MaxDeletes
               THEN [s EXCEPT !.docs = delete_document(@, x)]
               ELSE s

RECURSIVE ReachableFrom(_, _)
\* The states reachable from those of `seen`, whose last found are `new`
ReachableFrom(seen, new) ==
    LET next == { AfterStep(p[1], p[2]) : p \in new \X ConversationSteps }
        all == seen \cup next
    IN  IF all = seen THEN seen ELSE ReachableFrom(all, next \ seen)

\* Two asks or more against conversation c were answered 200 and the
\* persisted conversation holds fewer entries than asks were answered
LostUpdate(s) ==
    \E c \in DOMAIN s.convs :
        /\ Len(s.answered[c]) >= 2
        /\ Len(s.convs[c].entries) < Len(s.answered[c])

\* Nothing was asked yet: the state the service starts in
Fresh ==
    /\ asked = 0
    /\ convs = <<>>
    /\ \A u \in Clients : asks[u] = AskIdle
    /\ resp = NoResp

\* C17 (as stated): from the start of the service a state is reachable in
\* which two asks against the same conversation id have both completed
\* successfully and the persisted conversation holds only one of the two
\* new entries.
C17_LostUpdateReachable ==
    Fresh =>
        \E s \in ReachableFrom({WithoutLegacy(AskState)}, {WithoutLegacy(AskState)}) :
            LostUpdate(s)

\* C17 (amended): asks running concurrently, also against the same
\* conversation, lose no update: a persisted conversation holds exactly
\* the entries of the asks answered 200 with its id, in the order of the
\* responses.
C17_NoLostUpdate ==
    \A c \in DOMAIN convs :
        [i \in 1..Len(convs[c].entries) |-> convs[c].entries[i].question] = answered[c]

\* C17 witness: an ask that created its conversation completes after
\* another ask, started and completed meanwhile, has appended to that
\* conversation; both entries are persisted
C17_Witness ==
    /\ resp.op = "ask_done"
    /\ resp.code = 200
    /\ resp.info.created
    /\ resp.info.conversation_id \in DOMAIN convs
    /\ LET entries == convs[resp.info.conversation_id].entries
       IN  /\ Len(entries) = 2
           /\ entries[2].question = resp.info.question
           /\ entries[1].question # entries[2].question
           /\ answered[resp.info.conversation_id]
                 = <<entries[1].question, entries[2].question>>

\* The changes of a persisted status the specification allows
AllowedStatusChange(old, new, by_reprocess) ==
    \/ old = "uploaded" /\ new = "parsing"
    \/ old = "parsing" /\ new = "parsed"
    \/ old = "parsing" /\ new = "failed"
    \/ new = "uploaded" /\ by_reprocess

\* C18: over any interleaving of upload, reprocess and background tasks a
\* persisted status is one of uploaded, parsing, parsed, failed and changes
\* only uploaded -> parsing, parsing -> parsed, parsing -> failed, or to
\* uploaded by reprocess.
C18_StatusTransitions ==
    [][\A d \in DOMAIN docs' :
          /\ docs'[d].status \in {"uploaded", "parsing", "parsed", "failed"}
          /\ (d \in DOMAIN docs /\ docs'[d].status # docs[d].status)
                => AllowedStatusChange(docs[d].status, docs'[d].status,
                                       resp'.op = "reprocess" /\ resp'.id = d)]_vars

\* C19: once delete_document has removed a record no later step recreates
\* it; a background task scheduled for that id never writes it back.
C19_DeletedStaysDeleted ==
    [][\A d \in DeletedIds : ~DocExists(docs', d)]_vars

\* C19 witness: a background task scheduled for a deleted record has run,
\* found nothing and written nothing
C19_Witness ==
    /\ resp.op = "process"
    /\ resp.info = "missing"
    /\ resp.id \in DeletedIds

\* C20: while the process keeps running, every record created by an upload
\* call, accepted or rejected part-way, eventually reaches status parsed or
\* failed unless it is deleted; none stays uploaded or parsing forever.
C20_EveryUploadIsProcessed ==
    \A d \in DocIds :
        DocExists(docs, d)
            ~> (~DocExists(docs, d) \/ docs[d].status \in {"parsed", "failed"})

\* C21: every persisted entry was asked against the conversation's own
\* document: an ask carrying a conversation_id never appends an entry to a
\* conversation whose document_id differs from the request's document_id.
C21_EntryOfOwnDocument ==
    [][\A c \in DOMAIN convs \cap DOMAIN convs' :
          (/\ resp'.op = "ask_done"
           /\ resp'.code = 200
           /\ resp'.info.conversation_id = c
           /\ Len(convs'[c].entries) > Len(convs[c].entries))
              => convs'[c].document_id = resp'.id]_vars

\* C22: conversation entries are strictly append-ordered: a successful
\* add_qa_to_conversation of an ask keeps the persisted entries as a prefix
\* and adds exactly one entry, the asked turn, at the end; archive never
\* alters entries; the entries of the other conversations stay as they are.
C22_AppendOrdered ==
    [][/\ (resp'.op = "ask_done" /\ resp'.code = 200
              /\ ConvExists(convs, resp'.info.conversation_id))
          => LET c == resp'.info.conversation_id
             IN  /\ ConvExists(convs', c)
                 /\ Len(convs'[c].entries) = Len(convs[c].entries) + 1
                 /\ SubSeq(convs'[c].entries, 1, Len(convs[c].entries))
                       = convs[c].entries
                 /\ convs'[c].entries[Len(convs'[c].entries)].question
                       = resp'.info.question
                 /\ convs'[c].entries[Len(convs'[c].entries)].answer
                       = resp'.info.answer
                 /\ \A x \in DOMAIN convs \ {c} :
                       ConvExists(convs', x) /\ convs'[x].entries = convs[x].entries
       /\ resp'.op = "archive"
          => \A x \in DOMAIN convs :
                ConvExists(convs', x) /\ convs'[x].entries = convs[x].entries]_vars

\* C22 witness: an ask has appended a second, different turn to a
\* conversation that has been archived in the meantime
C22_Witness ==
    /\ resp.op = "ask_done"
    /\ resp.code = 200
    /\ ~resp.info.created
    /\ ConvExists(convs, resp.info.conversation_id)
    /\ LET c == convs[resp.info.conversation_id]
       IN  /\ c.status = "archived"
           /\ Len(c.entries) = 2
           /\ c.entries[2].question = resp.info.question
           /\ c.entries[1].question # c.entries[2].question

\* C26: archiving is terminal: once the persisted status is archived it
\* never returns to active and ask appends no further entries.
C26_ArchiveIsTerminal ==
    [][\A c \in DOMAIN convs \cap DOMAIN convs' :
          convs[c].status = "archived"
              => /\ convs'[c].status = "archived"
                 /\ convs'[c].entries = convs[c].entries]_vars

\* The response text _score_single_chunk looks at
ResponseText(reply) == strip(strip(reply.content))

\* No response: requests.post raised, a status other than 200, no choices
NoResponse(reply) == reply.kind # "ok"

\* A response that is not a number: float() raises ValueError (or the
\* response is empty)
NonNumeric(reply) == reply.kind = "ok" /\ ~py_float(ResponseText(reply)).ok

\* A response in which the pattern finds no number either
NothingToExtract(reply) ==
    NonNumeric(reply) /\ ~first_number(ResponseText(reply)).found

\* The score a chunk is to get from its own reply alone
OwnScore(reply) ==
    IF NoResponse(reply) \/ NothingToExtract(reply)
    THEN Tenths(5)
    ELSE IF NonNumeric(reply)
    THEN first_number(ResponseText(reply)).value
    ELSE LET v == py_float(ResponseText(reply))
         IN  IF v.kind \in {"nan", "inf"} THEN One
             ELSE IF v.kind = "-inf" \/ v.m < 0 THEN Zero
             ELSE IF GreaterThanOne(Dec(v.m, v.e)) THEN One
             ELSE Dec(v.m, v.e)

\* C23 (as stated): a chunk whose scoring failed (exception, non-200 or
\* non-numeric response) has the score 0.5 in the returned list, which
\* holds one score per candidate.
C23_FailureGivesNeutral ==
    /\ call.pc = "scored"
       => /\ Len(call.all_scores) = Len(call.env)
          /\ \A i \in 1..Len(call.env) :
                (NoResponse(call.env[i]) \/ NonNumeric(call.env[i]))
                    => call.all_scores[i] = Tenths(5)
    /\ call.pc = "chunk_scored"
       => ((NoResponse(call.reply) \/ NonNumeric(call.reply))
              => call.result = Tenths(5))

\* C23 (amended): the returned list holds one score per candidate, in
\* candidate order, each computed from the chunk's own reply alone: 0.5 for
\* a chunk without response (exception, non-200, no choices) or with a
\* response in which neither float() nor the pattern finds a number; the
\* first number the pattern finds for another non-numeric response; the
\* clamped float otherwise.  While batches are gathered all_scores holds
\* the scores of the finished batches.
C23_ScorePerCandidate ==
    /\ call.pc = "scored" => Len(call.all_scores) = Len(call.env)
    /\ call.pc \in {"gather", "scored"}
       => /\ Len(call.all_scores) = Min(Len(call.env), (call.b - 1) * max_concurrent)
          /\ \A i \in 1..Len(call.all_scores) :
                call.all_scores[i] = OwnScore(call.env[i])
    /\ call.pc = "chunk_scored" => call.result = OwnScore(call.reply)

\* C23 witness: a run of two batches has returned; a chunk whose request
\* raised has 0.5, a chunk of the other batch answered 0.8 has 0.8
C23_Witness ==
    /\ call.pc = "scored"
    /\ Len(call.env) > max_concurrent
    /\ \E i \in 1..max_concurrent, j \in (max_concurrent + 1)..Len(call.env) :
          /\ call.env[i].kind = "exception"
          /\ call.all_scores[i] = Tenths(5)
          /\ call.env[j] = ApiReply("ok", <<"0", ".", "8">>)
          /\ call.all_scores[j] = Tenths(8)
          /\ \E k \in 1..max_concurrent :
                call.env[k].kind = "ok" /\ call.all_scores[k] = One

\* C24: the candidates are scored in consecutive batches of at most 5: at
\* most 5 calls are in flight, every call of a batch has completed before a
\* call of the next batch starts, and every chunk is scored by exactly one
\* outbound call.
C24_BatchesOfFive ==
    call.pc \in {"gather", "scored"}
       => LET n == Len(call.env)
              first == (call.b - 1) * 5 + 1
          IN  /\ Cardinality(call.in_flight) <= 5
              /\ (call.pc = "gather" => Batch = first..Min(n, first + 4))
              /\ call.in_flight \subseteq Batch
              /\ call.started \subseteq 1..Min(n, first + 4)
              /\ 1..Min(n, first - 1) \subseteq call.started
              /\ \A i \in 1..n :
                    call.requests[i] = IF i \in call.started THEN 1 ELSE 0
              /\ (call.pc = "scored" => \A i \in 1..n : call.requests[i] = 1)

\* C24 witness: the first batch of five has been joined and a call of the
\* second batch is in flight
C24_Witness ==
    /\ call.pc = "gather"
    /\ call.b = 2
    /\ call.in_flight # {}
    /\ Len(call.all_scores) = 5

\* The documents whose last access is more than 24 hours old
Stale == { x \in DOMAIN last_access : now - last_access[x] > 24 }

\* The turns the manager holds for a document after the step
TurnsAfter(d) == IF d \in DOMAIN history' THEN history'[d] ELSE <<>>

\* C25: the manager keeps at most 10 turns per document: an 11th turn drops
\* the oldest and the order is kept.  Every add and every read purges the
\* documents whose last access is more than 24 hours old (the add is itself
\* an access of its document and is stamped before the purge; a read purges
\* its own document too and returns an empty history), so after an add or a
\* read every document that retains history was accessed within 24 hours.
C25_BoundedAndPurged ==
    [][/\ \A d \in DOMAIN history' : Len(history'[d]) <= 10
       /\ resp'.op = "add_conversation"
          => /\ \A x \in Stale \ {resp'.id} :
                   x \notin DOMAIN history' /\ x \notin DOMAIN last_access'
             /\ LET old == Turns(resp'.id)
                    turn == [question |-> "q3", answer |-> resp'.info]
                IN  TurnsAfter(resp'.id) =
                       IF Len(old) = 10
                       THEN SubSeq(old, 2, 10) \o <<turn>>
                       ELSE old \o <<turn>>
       /\ (resp'.op = "get_history" /\ resp'.code = 200)
          => /\ \A x \in Stale \ {resp'.id} :
                   x \notin DOMAIN history' /\ x \notin DOMAIN last_access'
             /\ TurnsAfter(resp'.id) =
                   IF resp'.id \in Stale THEN <<>> ELSE Turns(resp'.id)
             /\ resp'.info = TurnsAfter(resp'.id)
       /\ (resp'.op = "add_conversation"
              \/ (resp'.op = "get_history" /\ resp'.code = 200))
          => \A x \in DOMAIN history' :
                history'[x] # <<>>
                   => x \in DOMAIN last_access' /\ now' - last_access'[x] <= 24]_vars

\* C25 witness: document 1 has had eleven turns and holds the last ten in
\* order (turn 1 was dropped, turn 3 went to document 2), and the history
\* of document 2 has been purged
C25_Witness ==
    /\ resp.op = "add_conversation"
    /\ Len(Turns(1)) = 10
    /\ Turns(1)[1].answer = <<"2">>
    /\ Turns(1)[2].answer = <<"4">>
    /\ 2 \notin DOMAIN history
    /\ 2 \notin DOMAIN last_access

RECURSIVE SelectLines(_, _)
\* The stripped non-empty lines that are (headers = TRUE) or are not
\* (headers = FALSE) section headers, in source order
SelectLines(lines, headers) ==
    IF lines = <<>> THEN <<>>
    ELSE LET line == strip(Head(lines))
             rest == SelectLines(Tail(lines), headers)
         IN  IF line # <<>> /\ is_section_header(line) = headers
             THEN <<line>> \o rest
             ELSE rest

RECURSIVE BodyOf(_)
\* The lines of the contents of the sections, one section after the other
BodyOf(sections) ==
    IF sections = <<>> THEN <<>>
    ELSE Lines(Head(sections).content) \o BodyOf(Tail(sections))

\* C27: section segmentation loses no body text: the non-empty lines that
\* are no headers are, in source order, the lines of the contents of the
\* sections, and the header lines are, in order, the titles of the sections.
C27_NoBodyTextLost ==
    call.pc = "sectioned"
       => /\ BodyOf(call.result) = SelectLines(call.lines, FALSE)
          /\ [i \in 1..Len(call.result) |-> call.result[i].title]
                = SelectLines(call.lines, TRUE)

\* C28: switching the selected document in the Q&A tab leaves the last
\* answer and question cleared, no current conversation, the history panel
\* closed with the ask form visible, and no conversation list or detail of
\* the previous document left to be shown
C28_SwitchResetsQaState ==
    [][(/\ session.qa_selected_doc_id # 0
        /\ resp'.op = "qa_tab"
        /\ resp'.info.event = "select_document")
       => /\ session'.qa_result = NoQaResult
          /\ session'.qa_question = ""
          /\ session'.current_conversation_id = 0
          /\ ~session'.show_history_sidebar
          /\ ~session'.hide_qa_interface
          /\ session'.conversations = {}
          /\ session'.conversation_detail = {}
          /\ session'.showing_conv_detail \in
                 {0, DetailDocument(session'.qa_selected_doc_id)}]_vars

\* The step presses the regenerate or the new-summary button
ResetPressed ==
    /\ resp'.op = "summary_tab"
    /\ resp'.info.event \in {"regenerate", "new_summary"}

\* C29: custom_summary_generated is true exactly when custom_summary_result
\* is set; a custom-summary request is sent only while nothing is generated;
\* and until regenerate or new summary is pressed a generated result is
\* kept, and shown by every run that renders the custom view
C29_GeneratedResultStays ==
    [][/\ session'.custom_summary_generated
            <=> session'.custom_summary_result # NoCustomSummary
       /\ (resp'.op = "summary_tab" /\ resp'.info.requested)
            => /\ ~session.custom_summary_generated
               /\ session.custom_summary_result = NoCustomSummary
       /\ (session.custom_summary_result # NoCustomSummary /\ ~ResetPressed)
            => /\ session'.custom_summary_result
                      = session.custom_summary_result
               /\ (resp'.op = "summary_tab" /\ resp'.info.custom_view)
                      => resp'.info.shown = session.custom_summary_result]_vars

\* C29 witness: a rerender of the custom view shows the generated result
\* without a request
C29_Witness ==
    /\ resp.op = "summary_tab"
    /\ resp.info.event = "rerender"
    /\ resp.info.custom_view
    /\ ~resp.info.requested
    /\ session.custom_summary_generated
    /\ resp.info.shown = session.custom_summary_result
    /\ resp.info.shown # NoCustomSummary

\* C30: the custom summary shown in the summary tab is one of the document
\* that is selected there
C30_SummaryOfSelectedDocument ==
    resp.op = "summary_tab"
        => resp.info.shown \in {NoCustomSummary, CustomSummary(resp.id)}

====
